---- MODULE Spec2Model ----
(***************************************************************************)
(* Monitoring control plane: tool facade (monitors_mcp/mcp_server),        *)
(* workload manager (monitors_mcp/deployment.py), alert engine             *)
(* (alert-engine/engine.py) and notification dispatcher                    *)
(* (alert-engine/notification_manager.py) over the relational schema of    *)
(* monitors_mcp/models.py.                                                 *)
(*                                                                         *)
(* Conventions.  ORM objects handed out of a session are snapshots of the  *)
(* row as loaded.  The relational store enforces the schema's NOT NULL     *)
(* foreign keys (models.py), so deleting a parent row that is still        *)
(* referenced, or inserting a child row whose parent is gone, raises.      *)
(* Identifiers are never reused (uuid), modelled by counters.              *)
(***************************************************************************)
EXTENDS Integers, Sequences, FiniteSets, TLC

\* ------------------------------------------------------------- bounds
MaxMonitors == 2
MaxRules == 2
MaxAlerts == 2
MaxTicks == 4
CooldownRules == 1
DispatchTicks == 2
TickRules == 2
LoopTicks == 1
HorizonTicks == 2
MaxKeys == 2
VaultMonitors == 1
StatusMonitors == 2
ChannelTicks == 1
RowTicks == 1
OverlapMonitors == 1
IntegrityTicks == 1
IntegrityMonitors == 1
ValidationRules == 1
MaxEvaluations == 2
MaxApplies == 3
FacadeMonitors == 1

\* ---------------------------------------------------- program constants
EvaluationInterval == 30
DefaultCooldownMinutes == 5
TriggerDataLen == 3
SecondsPerMinute == 60

MaxTime == MaxTicks * EvaluationInterval
NoId == 0
NoTime == -1
NoDeployment == <<>>
Users == {"usr_a", "usr_b"}
NoSecrets == <<>>
OneSecret == [api_key |-> "plaintext-1"]
SecretInputs == {NoSecrets, OneSecret}
MonitorType == "crypto_price"

VARIABLES
    monitors,       \* table monitors: id -> row
    secrets,        \* table secrets: id -> row
    alert_rules,    \* table alert_rules: id -> row
    alerts,         \* table alerts: id -> row
    nextId,         \* [monitor, secret, rule, alert]: next fresh identifier
    k8s_client,     \* deployment_manager.k8s_apps_v1 is set
    deployments,    \* cluster: deployment name -> spec
    k8s_secrets,    \* cluster: secret name -> string_data
    applies,        \* deploy_monitor calls in flight: caller -> where the call stands
    call,           \* the facade call in flight (op "none" when idle)
    resp,           \* the last facade response, with what the call touched
    lastDeploy,     \* the last deploy_monitor call and its result
    redis_client,   \* AlertEngine.redis_client is set (connected)
    cooldown,       \* cooldown store: rule id -> expiry time of alert_cooldown:<id>
    now,            \* wall clock, seconds
    running,        \* AlertEngine.running
    pc,             \* engine position: "init", "idle", "eval", "notify", "done"
    loaded,         \* rules loaded by the current tick and not yet evaluated
    curAlert,       \* id of the alert being dispatched
    sendgrid_client,\* NotificationManager.sendgrid_client is set
    webhooks,       \* webhook channels configured in the environment
    http_client,    \* httpx.AsyncClient state: "unopened", "opened", "closed"
    lastEval,       \* the last _evaluate_rule and what it observed
    lastDispatch,   \* the last send_alert_notification and what happened
    fired,          \* rule id -> the rule's last firing
    arg_condition,  \* _evaluate_condition under study: its condition argument
    arg_data_points,\* _evaluate_condition under study: its data_points argument
    verdicts,       \* the results of the calls made with these arguments so far
    shutdown_event, \* start_alert_engine.main: shutdown_event is set
    main_pc,        \* start_alert_engine.main: "gather" or "stopped"
    tick_error,     \* when a tick last raised out of _evaluation_cycle, or NoTime
    redis_closed,   \* AlertEngine.stop has closed the cooldown connection
    encryption_key, \* AuthManager.encryption_key of the running facade process
    log             \* log lines that format a payload handed in by a caller

dbVars == <<monitors, secrets, alert_rules, alerts, nextId>>
clusterVars == <<k8s_client, deployments, k8s_secrets, applies>>
facadeVars == <<call, resp, lastDeploy>>
engineVars == <<redis_client, cooldown, now, running, pc, loaded, curAlert,
                lastEval, fired>>
dispatchVars == <<sendgrid_client, webhooks, http_client, lastDispatch>>
evalVars == <<arg_condition, arg_data_points, verdicts>>
lifecycleVars == <<shutdown_event, main_pc, tick_error, redis_closed>>
vaultVars == <<encryption_key, log>>
vars == <<dbVars, clusterVars, facadeVars, engineVars, dispatchVars, evalVars,
          lifecycleVars, vaultVars>>

\* ------------------------------------------------------------ helpers
Rows(table) == DOMAIN table
Insert(table, id, row) == [x \in Rows(table) \cup {id} |-> IF x = id THEN row ELSE table[x]]
Delete(table, ids) == [x \in Rows(table) \ ids |-> table[x]]
Range(f) == {f[x] : x \in DOMAIN f}

\* ---------------------------------------------------------- the vault
\* Secret.create: auth_manager.fernet.encrypt(value).  A token names the key
\* it was made with and holds the value, which only that key gives back.
InvalidToken == "InvalidToken"

\* A vault that stores the value as it is given.
encrypt_plain(key, value) == <<"none", key, value>>

encrypt(key, value) == <<"fernet", key, value>>

\* Fernet.decrypt: the value, for the key the token was made with
decrypt(key, token) ==
    IF token[1] = "fernet" /\ token[2] = key THEN token[3] ELSE InvalidToken

\* What a reader of the column without any key gets out of a stored value.
Visible(token) == IF token[1] = "fernet" THEN InvalidToken ELSE token[3]

\* ---------------------------------------------------- relational schema
\* A lookup by id alone.
get_by_id(monitor_id, user_id) ==
    IF monitor_id \in Rows(monitors) THEN monitor_id ELSE NoId

\* Monitor.get_by_id_and_user
get_by_id_and_user(monitor_id, user_id) ==
    IF monitor_id \in Rows(monitors) /\ monitors[monitor_id].user_id = user_id
    THEN monitor_id ELSE NoId

\* ForeignKey columns of AlertRule and Alert onto monitors.id
MonitorReferenced(monitor_id) ==
    \/ \E r \in Rows(alert_rules) : alert_rules[r].monitor_id = monitor_id
    \/ \E a \in Rows(alerts) : alerts[a].monitor_id = monitor_id

\* A store that does not hold on to a rule its alerts name.
RuleReferenced_unenforced(rule_id) == FALSE

\* ForeignKey column of Alert onto alert_rules.id
RuleReferenced(rule_id) == \E a \in Rows(alerts) : alerts[a].rule_id = rule_id

\* ------------------------------------------------------ workload manager
DeploymentName(monitor_id) == <<"monitor-", monitor_id>>
SimulatedName(monitor_id) == <<"monitor-", monitor_id, "-simulated">>
SecretName(monitor_id) == <<"monitor-", monitor_id, "-secrets">>

\* MonitorTemplateEngine.generate_kubernetes_config
generate_kubernetes_config(monitor_id, monitor_config) ==
    [name |-> DeploymentName(monitor_id),
     labels |-> [app |-> "monitor", monitor_id |-> monitor_id,
                 user_id |-> monitor_config.user_id,
                 monitor_type |-> monitor_config.monitor_type],
     replicas |-> 1,
     image |-> <<"monitors/", monitor_config.monitor_type, ":latest">>,
     secretKeyRef |-> SecretName(monitor_id)]

\* Where a cluster call of deploy_monitor can fail: "unreachable" at
\* _ensure_namespace, "secrets" an exception leaving _create_secrets,
\* "secret_rejected" an ApiException other than 404 answering the secret
\* patch (caught and dropped by _create_secrets), "workload" at the read,
\* patch or create of the deployment.
DeployFaults == {"none", "unreachable", "secrets", "secret_rejected", "workload"}

\* _create_secrets: patch, on 404 create
create_secrets(ksec, monitor_id, secretsIn) ==
    Insert(ksec, SecretName(monitor_id), secretsIn)

\* deploy_monitor: the cluster's secret objects after the call
DeploySecrets(monitor_id, secretsIn, fault) ==
    IF k8s_client /\ fault \in {"none", "workload"} /\ secretsIn # NoSecrets
    THEN create_secrets(k8s_secrets, monitor_id, secretsIn)
    ELSE k8s_secrets

\* deploy_monitor: the cluster's deployments after the call (read, then patch
\* or create with the generated body)
DeployWorkloads(monitor_id, monitor_config, fault) ==
    IF k8s_client /\ fault \in {"none", "secret_rejected"}
    THEN Insert(deployments, DeploymentName(monitor_id),
                generate_kubernetes_config(monitor_id, monitor_config))
    ELSE deployments

\* deploy_monitor: the returned dictionary
DeployResult(monitor_id, fault) ==
    IF ~k8s_client
    THEN [deployment_id |-> SimulatedName(monitor_id), status |-> "deployed_simulated"]
    ELSE IF fault \in {"none", "secret_rejected"}
    THEN [deployment_id |-> DeploymentName(monitor_id), status |-> "deployed"]
    ELSE [deployment_id |-> NoDeployment, status |-> "failed"]

\* deploy_monitor: the log lines that format what the caller handed in,
\* "Config: <monitor_config>" of _simulate_deployment and "Failed to deploy
\* monitor <id>: <error>".
DeployLog(monitor_id, monitor_config, fault) ==
    IF ~k8s_client
    THEN {<<"Config", monitor_config.user_id, monitor_config.monitor_type>>}
    ELSE IF DeployResult(monitor_id, fault).status = "failed"
    THEN {<<"Failed to deploy monitor", fault>>}
    ELSE {}

\* stop_monitor: the cluster after the call.  A failing delete of the
\* deployment (absent, or a cluster error) returns False before the secret
\* object is touched.
StopSucceeds(deployment_id, fault) ==
    k8s_client /\ ~fault /\ deployment_id \in DOMAIN deployments
StopWorkloads(deployment_id, fault) ==
    IF StopSucceeds(deployment_id, fault)
    THEN Delete(deployments, {deployment_id}) ELSE deployments
StopSecrets(deployment_id, fault) ==
    IF StopSucceeds(deployment_id, fault)
    THEN Delete(k8s_secrets, {deployment_id \o <<"-secrets">>}) ELSE k8s_secrets

\* read_namespaced_deployment(...).status as the cluster reports it: replicas
\* and ready_replicas, each <<n>> or <<>> for None (the API leaves a count
\* of zero out, so a workload without pods reports None for both).
WorkloadStatus(replicas, ready_replicas) ==
    [replicas |-> replicas, ready_replicas |-> ready_replicas]
StatusUnset == WorkloadStatus(<<>>, <<>>)
StatusStarting == WorkloadStatus(<<1>>, <<>>)
StatusReady == WorkloadStatus(<<1>>, <<1>>)
StatusDegraded == WorkloadStatus(<<2>>, <<1>>)
WorkloadReads == {StatusUnset, StatusStarting, StatusReady, StatusDegraded}

\* How the read can fail: "api_error" an ApiException other than 404,
\* "transport" any other exception.
ReadFaults == {"none", "api_error", "transport"}

\* x or 0
OrZero(x) == IF x = <<>> THEN 0 ELSE x[1]

\* MonitorDeploymentManager.get_monitor_status; "raised": the ApiException
\* leaves the function.
deployment_status(deployment_id, observed, fault) ==
    IF ~k8s_client
    THEN [status |-> "simulated", ready_replicas |-> 1, total_replicas |-> 1]
    ELSE IF fault = "transport" THEN [status |-> "error"]
    ELSE IF fault = "api_error" THEN [status |-> "raised"]
    ELSE IF deployment_id \notin DOMAIN deployments THEN [status |-> "not_found"]
    ELSE [status |-> IF observed.ready_replicas = observed.replicas
                     THEN "running" ELSE "starting",
          ready_replicas |-> OrZero(observed.ready_replicas),
          total_replicas |-> OrZero(observed.replicas)]

\* ------------------------------------------------------------ the facade
NoCall == [op |-> "none"]
Idle == call.op = "none"

\* Owners of the rows a step created, changed or removed in one table.
Changed(t0, t1) ==
    {t0[x].user_id : x \in {y \in Rows(t0) : y \notin Rows(t1) \/ t1[y] # t0[y]}}
    \cup {t1[x].user_id : x \in Rows(t1) \ Rows(t0)}

\* Owners of every relational row that differs between the tables as they
\* are and the tables m1, s1, r1, a1 a call leaves.
Touched(m1, s1, r1, a1) ==
    Changed(monitors, m1) \cup Changed(secrets, s1)
    \cup Changed(alert_rules, r1) \cup Changed(alerts, a1)

Response(op, caller, success, message, touched, returned) ==
    [op |-> op, caller |-> caller, success |-> success, message |-> message,
     touched |-> touched, returned |-> returned]

\* create_monitor, first half: Secret.create for every entry, Monitor.create.
create_monitor(u, secretsIn) ==
    /\ Idle
    /\ nextId.monitor <= MaxMonitors
    /\ LET mid == nextId.monitor
            sid == nextId.secret
            secret_ids == [k \in DOMAIN secretsIn |-> sid]
            s1 == IF secretsIn = NoSecrets THEN secrets
                  ELSE Insert(secrets, sid,
                              [user_id |-> u, name |-> "api_key",
                               encrypted_value |-> encrypt(encryption_key, secretsIn.api_key)])
            m1 == Insert(monitors, mid,
                         [user_id |-> u, monitor_type |-> MonitorType,
                          secret_ids |-> secret_ids, status |-> "starting",
                          deployment_id |-> NoDeployment])
       IN /\ secrets' = s1
          /\ monitors' = m1
          /\ nextId' = [nextId EXCEPT !.monitor = mid + 1,
                            !.secret = IF secretsIn = NoSecrets THEN sid ELSE sid + 1]
          /\ call' = [op |-> "create_monitor", user |-> u, monitor_id |-> mid,
                      secrets |-> secretsIn,
                      touched |-> Touched(m1, s1, alert_rules, alerts)]
    /\ UNCHANGED <<evalVars, lifecycleVars, vaultVars,
                   alert_rules, alerts, clusterVars, resp, lastDeploy,
                   engineVars, dispatchVars>>

\* The row update of create_monitor after deploy_monitor returned.
DeployedStatus(result) == IF result.status = "deployed" THEN "deploying" ELSE "error"
\* A row update that does not look at the returned deployment_id.
MonitorAfterDeploy_unconditional(row, result) ==
    [row EXCEPT !.deployment_id = result.deployment_id,
                !.status = DeployedStatus(result)]

MonitorAfterDeploy(row, result) ==
    IF result.deployment_id # NoDeployment
    THEN [row EXCEPT !.deployment_id = result.deployment_id,
                     !.status = DeployedStatus(result)]
    ELSE row

\* What a deploy_monitor call for monitor mid left behind: the monitor row
\* (m1: the table after the caller's update), the returned dictionary, the
\* cluster objects of the monitor (d1, k1: the cluster after the call), and
\* the same for the first of the successive calls for this monitor.
NoSpec == [name |-> NoDeployment]
WorkloadSpec(d1, mid) ==
    IF DeploymentName(mid) \in DOMAIN d1 THEN d1[DeploymentName(mid)] ELSE NoSpec
DeployRecord(mid, m1, result, d1, k1) ==
    LET again == lastDeploy.monitor_id = mid
    IN [monitor_id |-> mid,
        row_present |-> mid \in Rows(monitors),
        row_status |-> IF mid \in Rows(m1) THEN m1[mid].status ELSE "absent",
        result |-> result,
        calls |-> IF again THEN lastDeploy.calls + 1 ELSE 1,
        all_deployed |-> result.status = "deployed"
                         /\ (again => lastDeploy.all_deployed),
        first_id |-> IF again THEN lastDeploy.first_id ELSE result.deployment_id,
        first_spec |-> IF again THEN lastDeploy.first_spec ELSE WorkloadSpec(d1, mid),
        spec |-> WorkloadSpec(d1, mid),
        workloads |-> {n \in DOMAIN d1 : d1[n].labels.monitor_id = mid},
        secret_objects |-> {n \in DOMAIN k1 : n = SecretName(mid)}]

\* create_monitor, second half: deploy_monitor, the row update, the response.
create_monitor_deploy(fault) ==
    /\ call.op = "create_monitor"
    /\ LET mid == call.monitor_id
            cfg == [user_id |-> call.user, monitor_type |-> MonitorType]
            result == DeployResult(mid, fault)
            m1 == IF mid \in Rows(monitors)
                  THEN [monitors EXCEPT ![mid] = MonitorAfterDeploy(@, result)]
                  ELSE monitors
       IN /\ k8s_secrets' = DeploySecrets(mid, call.secrets, fault)
          /\ deployments' = DeployWorkloads(mid, cfg, fault)
          /\ lastDeploy' = DeployRecord(mid, m1, result, deployments', k8s_secrets')
          /\ monitors' = m1
          /\ log' = log \cup DeployLog(mid, cfg, fault)
          /\ resp' = Response("create_monitor", call.user, TRUE, "created",
                              call.touched \cup Changed(monitors, m1), {call.user})
    /\ call' = NoCall
    /\ UNCHANGED <<evalVars, lifecycleVars, encryption_key,
                   secrets, alert_rules, alerts, nextId, k8s_client, applies,
                   engineVars, dispatchVars>>

\* deploy_monitor called again for a monitor that has been applied, with the
\* arguments create_monitor gave it.
deploy_monitor(monitor_id, fault) ==
    /\ Idle
    /\ monitor_id \in Rows(monitors)
    /\ lastDeploy.monitor_id = monitor_id
    /\ lastDeploy.calls < MaxApplies
    /\ LET row == monitors[monitor_id]
           cfg == [user_id |-> row.user_id, monitor_type |-> row.monitor_type]
           secretsIn == IF row.secret_ids = NoSecrets THEN NoSecrets ELSE OneSecret
       IN /\ k8s_secrets' = DeploySecrets(monitor_id, secretsIn, fault)
          /\ deployments' = DeployWorkloads(monitor_id, cfg, fault)
          /\ lastDeploy' = DeployRecord(monitor_id, monitors, DeployResult(monitor_id, fault),
                                        deployments', k8s_secrets')
          /\ log' = log \cup DeployLog(monitor_id, cfg, fault)
    /\ UNCHANGED <<evalVars, lifecycleVars, encryption_key,
                   dbVars, k8s_client, applies, call, resp, engineVars, dispatchVars>>

\* Two facade processes share the cluster, each with its own
\* deployment_manager.
Appliers == {"facade_1", "facade_2"}
NoApply == [phase |-> "idle"]

\* create_namespaced_deployment answers 409 when the name is taken.
CreateConflicts(found, monitor_id) ==
    ~found /\ DeploymentName(monitor_id) \in DOMAIN deployments

\* deploy_monitor on a configured cluster, up to the answer of
\* read_namespaced_deployment: _ensure_namespace, _create_secrets, the
\* generated body, the read.
deploy_monitor_read(p, monitor_id) ==
    /\ Idle
    /\ k8s_client
    /\ applies[p].phase # "read"
    /\ monitor_id \in Rows(monitors)
    /\ LET row == monitors[monitor_id]
           secretsIn == IF row.secret_ids = NoSecrets THEN NoSecrets ELSE OneSecret
       IN /\ k8s_secrets' = DeploySecrets(monitor_id, secretsIn, "none")
          /\ applies' = [applies EXCEPT ![p] =
                            [phase |-> "read", monitor_id |-> monitor_id,
                             monitor_config |-> [user_id |-> row.user_id,
                                                 monitor_type |-> row.monitor_type],
                             found |-> DeploymentName(monitor_id) \in DOMAIN deployments]]
    /\ UNCHANGED <<evalVars, lifecycleVars, vaultVars, dbVars, k8s_client, deployments,
                   facadeVars, engineVars, dispatchVars>>

\* The rest of deploy_monitor: the patch of the workload that was found (a
\* 404 answering the patch leads to the create as well), or the create of
\* the one that was not; an ApiException other than 404, the 409 of the
\* create among them, leaves through the outer except and the call returns
\* "failed".  fault: the cluster fails the patch or the create.
deploy_monitor_write(p, fault) ==
    /\ applies[p].phase = "read"
    /\ LET monitor_id == applies[p].monitor_id
           failed == fault \/ CreateConflicts(applies[p].found, monitor_id)
           result == IF failed THEN [deployment_id |-> NoDeployment, status |-> "failed"]
                     ELSE [deployment_id |-> DeploymentName(monitor_id),
                           status |-> "deployed"]
       IN /\ deployments' =
                IF failed THEN deployments
                ELSE Insert(deployments, DeploymentName(monitor_id),
                            generate_kubernetes_config(monitor_id,
                                                       applies[p].monitor_config))
          /\ applies' = [applies EXCEPT ![p] =
                            [phase |-> "done", monitor_id |-> monitor_id,
                             found |-> applies[p].found, fault |-> fault,
                             result |-> result]]
          /\ log' = log \cup (IF failed THEN {<<"Failed to deploy monitor", "workload">>}
                               ELSE {})
    /\ UNCHANGED <<evalVars, lifecycleVars, encryption_key, dbVars, k8s_client,
                   k8s_secrets, facadeVars, engineVars, dispatchVars>>

\* delete_monitor: stop_monitor, Secret.delete for every reference,
\* Monitor.delete.  Monitor.delete raises while a rule or an alert still
\* references the row; the steps before it have been committed by then.
delete_monitor(u, monitor_id, fault) ==
    /\ Idle
    /\ LET mid == get_by_id_and_user(monitor_id, u)
       IN IF mid = NoId
          THEN /\ resp' = Response("delete_monitor", u, FALSE, "Monitor not found", {}, {})
               /\ UNCHANGED <<dbVars, deployments, k8s_secrets>>
          ELSE LET row == monitors[mid]
                   stop == row.deployment_id # NoDeployment
                   s1 == Delete(secrets, Range(row.secret_ids))
                   m1 == IF MonitorReferenced(mid) THEN monitors
                         ELSE Delete(monitors, {mid})
                   touched == Touched(m1, s1, alert_rules, alerts)
               IN /\ deployments' = IF stop THEN StopWorkloads(row.deployment_id, fault)
                                    ELSE deployments
                  /\ k8s_secrets' = IF stop THEN StopSecrets(row.deployment_id, fault)
                                    ELSE k8s_secrets
                  /\ secrets' = s1
                  /\ monitors' = m1
                  /\ resp' = IF MonitorReferenced(mid)
                             THEN Response("delete_monitor", u, FALSE,
                                           "Failed to delete monitor", touched, {})
                             ELSE Response("delete_monitor", u, TRUE, "deleted",
                                           touched, {row.user_id})
                  /\ UNCHANGED <<alert_rules, alerts, nextId>>
    /\ UNCHANGED <<evalVars, lifecycleVars, vaultVars,
                   k8s_client, applies, call, lastDeploy, engineVars, dispatchVars>>

\* ------------------------------------------------------------ conditions
Get(d, key, default) == IF key \in DOMAIN d THEN d[key] ELSE default

\* Values are held in ten-thousandths (1.0005 is 10005), so that the
\* evaluator's tolerance of 0.001 is ten units.
Scale == 10000
Tolerance == 10

CondLatestGt == [type |-> "threshold", field |-> "price", operator |-> ">",
                 value |-> 50000 * Scale, aggregation |-> "latest"]
CondIncomplete == [type |-> "threshold", field |-> "price"]
CondUnknownType == [type |-> "trend", field |-> "price", operator |-> ">",
                    value |-> 50000 * Scale, aggregation |-> "latest"]
ConditionInputs == {CondLatestGt, CondIncomplete, CondUnknownType}
SeverityInputs == {"high", "urgent"}
CooldownInputs == {-1, 0, 2}
TitleInputs == {"t1"}

required_fields == {"type", "field", "operator", "value"}
valid_severities == {"low", "medium", "high", "critical"}
ConditionComplete(condition) == required_fields \subseteq DOMAIN condition

\* create_alert_rule
create_alert_rule(u, monitor_id, title, condition, severity, cooldown_minutes) ==
    /\ Idle
    /\ nextId.rule <= MaxRules
    /\ LET mid == get_by_id_and_user(monitor_id, u)
           rid == nextId.rule
           message == IF mid = NoId THEN "Monitor not found or access denied"
                      ELSE IF ~ConditionComplete(condition) THEN "Condition must include"
                      ELSE IF severity \notin valid_severities THEN "Severity must be one of"
                      ELSE "ok"
           r1 == Insert(alert_rules, rid,
                        [monitor_id |-> mid, user_id |-> u, title |-> title,
                         condition |-> condition, severity |-> severity,
                         cooldown_minutes |-> cooldown_minutes, is_active |-> TRUE])
       IN IF message # "ok"
          THEN /\ resp' = Response("create_alert_rule", u, FALSE, message, {}, {})
               /\ UNCHANGED dbVars
          ELSE /\ alert_rules' = r1
               /\ nextId' = [nextId EXCEPT !.rule = rid + 1]
               /\ resp' = Response("create_alert_rule", u, TRUE, "ok",
                                   Touched(monitors, secrets, r1, alerts), {u})
               /\ UNCHANGED <<monitors, secrets, alerts>>
    /\ UNCHANGED <<evalVars, lifecycleVars, vaultVars,
                   clusterVars, call, lastDeploy, engineVars, dispatchVars>>

\* The fields an update_alert_rule call supplies.
PatchInputs == {[is_active |-> FALSE], [is_active |-> TRUE],
                [cooldown_minutes |-> 0], [cooldown_minutes |-> -1],
                [condition |-> CondUnknownType], [condition |-> CondIncomplete],
                [title |-> "t2", severity |-> "urgent"]}

\* update_alert_rule: the fields are assigned in the order title, condition,
\* severity, cooldown_minutes, is_active; a validation failure returns from
\* inside the session block, whose exit commits what was assigned so far.
PatchMessage(patch) ==
    IF "condition" \in DOMAIN patch /\ ~ConditionComplete(patch.condition)
    THEN "Condition must include"
    ELSE IF "severity" \in DOMAIN patch /\ patch.severity \notin valid_severities
    THEN "Severity must be one of"
    ELSE "ok"
PatchedRule(row, patch) ==
    LET m == PatchMessage(patch)
        r1 == [row EXCEPT !.title = Get(patch, "title", @)]
        r2 == IF m = "Condition must include" THEN r1
              ELSE [r1 EXCEPT !.condition = Get(patch, "condition", @)]
        r3 == IF m # "ok" THEN r2
              ELSE [r2 EXCEPT !.severity = Get(patch, "severity", @),
                              !.cooldown_minutes = Get(patch, "cooldown_minutes", @),
                              !.is_active = Get(patch, "is_active", @)]
    IN r3

\* A rule lookup by id alone.
RuleOf_any(rule_id, u) ==
    IF rule_id \in Rows(alert_rules) THEN rule_id ELSE NoId

\* The rule a rule operation of user u targets.
RuleOf(rule_id, u) ==
    IF rule_id \in Rows(alert_rules) /\ alert_rules[rule_id].user_id = u
    THEN rule_id ELSE NoId

update_alert_rule(u, rule_id, patch) ==
    /\ Idle
    /\ LET rid == RuleOf(rule_id, u)
       IN IF rid = NoId
          THEN /\ resp' = Response("update_alert_rule", u, FALSE,
                                   "Alert rule not found or access denied", {}, {})
               /\ UNCHANGED alert_rules
          ELSE LET r1 == [alert_rules EXCEPT ![rid] = PatchedRule(@, patch)]
                   touched == Touched(monitors, secrets, r1, alerts)
               IN /\ alert_rules' = r1
                  /\ resp' = IF PatchMessage(patch) = "ok"
                             THEN Response("update_alert_rule", u, TRUE, "ok", touched,
                                           {alert_rules[rid].user_id})
                             ELSE Response("update_alert_rule", u, FALSE,
                                           PatchMessage(patch), touched, {})
    /\ UNCHANGED <<evalVars, lifecycleVars, vaultVars,
                   monitors, secrets, alerts, nextId, clusterVars, call, lastDeploy,
                   engineVars, dispatchVars>>

\* delete_alert_rule: session.delete raises while an alert references the rule.
delete_alert_rule(u, rule_id) ==
    /\ Idle
    /\ LET rid == RuleOf(rule_id, u)
       IN IF rid = NoId
          THEN /\ resp' = Response("delete_alert_rule", u, FALSE,
                                   "Alert rule not found or access denied", {}, {})
               /\ UNCHANGED alert_rules
          ELSE IF RuleReferenced(rid)
          THEN /\ resp' = Response("delete_alert_rule", u, FALSE,
                                   "Failed to delete alert rule", {}, {})
               /\ UNCHANGED alert_rules
          ELSE LET r1 == Delete(alert_rules, {rid})
               IN /\ alert_rules' = r1
                  /\ resp' = Response("delete_alert_rule", u, TRUE, "deleted",
                                      Touched(monitors, secrets, r1, alerts), {})
    /\ UNCHANGED <<evalVars, lifecycleVars, vaultVars,
                   monitors, secrets, alerts, nextId, clusterVars, call, lastDeploy,
                   engineVars, dispatchVars>>

\* acknowledge_alert
AlertOf(alert_id, u) ==
    IF alert_id \in Rows(alerts) /\ alerts[alert_id].user_id = u
    THEN alert_id ELSE NoId

acknowledge_alert(u, alert_id) ==
    /\ Idle
    /\ LET aid == AlertOf(alert_id, u)
       IN IF aid = NoId
          THEN /\ resp' = Response("acknowledge_alert", u, FALSE,
                                   "Alert not found or access denied", {}, {})
               /\ UNCHANGED alerts
          ELSE LET a1 == [alerts EXCEPT ![aid].acknowledged_at = now,
                                        ![aid].status = "acknowledged"]
               IN /\ alerts' = a1
                  /\ resp' = Response("acknowledge_alert", u, TRUE, "ok",
                                      Touched(monitors, secrets, alert_rules, a1),
                                      {alerts[aid].user_id})
    /\ UNCHANGED <<evalVars, lifecycleVars, vaultVars,
                   monitors, secrets, alert_rules, nextId, clusterVars, call, lastDeploy,
                   engineVars, dispatchVars>>

\* ------------------------------------------------------- facade queries
\* list_monitors: Monitor.get_by_user
list_monitors(u) ==
    /\ Idle
    /\ resp' = Response("list_monitors", u, TRUE, "ok", {},
                        {monitors[m].user_id : m \in {x \in Rows(monitors) : monitors[x].user_id = u}})
    /\ UNCHANGED <<evalVars, lifecycleVars, vaultVars,
                   dbVars, clusterVars, call, lastDeploy, engineVars, dispatchVars>>

\* Alert.get_by_monitor
get_by_monitor(monitor_id) == {a \in Rows(alerts) : alerts[a].monitor_id = monitor_id}

\* get_monitor_status: building the alert list reads alert.level, which the
\* Alert model does not have, so the call fails once the monitor has alerts.
get_monitor_status(u, monitor_id) ==
    /\ Idle
    /\ LET mid == get_by_id_and_user(monitor_id, u)
       IN resp' = IF mid = NoId
                  THEN Response("get_monitor_status", u, FALSE, "Monitor not found", {}, {})
                  ELSE IF get_by_monitor(monitor_id) # {}
                  THEN Response("get_monitor_status", u, FALSE,
                                "Failed to get monitor status", {}, {})
                  ELSE Response("get_monitor_status", u, TRUE, "ok", {},
                                {monitors[mid].user_id})
    /\ UNCHANGED <<evalVars, lifecycleVars, vaultVars,
                   dbVars, clusterVars, call, lastDeploy, engineVars, dispatchVars>>

\* get_deployment_status.  The response for a deployed monitor of the caller
\* carries the monitor's id and what get_monitor_status returned; the
\* handler writes no row.
get_deployment_status(u, monitor_id, observed, fault) ==
    /\ Idle
    /\ LET mid == get_by_id_and_user(monitor_id, u)
       IN resp' =
            IF mid = NoId
            THEN Response("get_deployment_status", u, FALSE, "Monitor not found", {}, {})
            ELSE IF monitors[mid].deployment_id = NoDeployment
            THEN Response("get_deployment_status", u, TRUE, "not_deployed", {},
                          {monitors[mid].user_id})
            ELSE LET result == deployment_status(monitors[mid].deployment_id,
                                                 observed, fault)
                 IN IF result.status = "raised"
                    THEN Response("get_deployment_status", u, FALSE,
                                  "Failed to get deployment status", {}, {})
                    ELSE [op |-> "get_deployment_status", caller |-> u,
                          success |-> TRUE, message |-> "ok", touched |-> {},
                          returned |-> {monitors[mid].user_id},
                          monitor_id |-> mid, deployment_status |-> result]
    /\ UNCHANGED <<evalVars, lifecycleVars, vaultVars,
                   dbVars, clusterVars, call, lastDeploy, engineVars, dispatchVars>>

\* get_monitor_data, and with the same ownership check get_crypto_analysis,
\* get_website_uptime_analysis and query_monitor_data_custom: the samples of
\* the monitor are read from the sample store by monitor id.
get_monitor_data(u, monitor_id) ==
    /\ Idle
    /\ LET mid == get_by_id_and_user(monitor_id, u)
       IN resp' = IF mid = NoId
                  THEN Response("get_monitor_data", u, FALSE, "Monitor not found", {}, {})
                  ELSE Response("get_monitor_data", u, TRUE, "ok", {},
                                {monitors[mid].user_id})
    /\ UNCHANGED <<evalVars, lifecycleVars, vaultVars,
                   dbVars, clusterVars, call, lastDeploy, engineVars, dispatchVars>>

\* list_alert_rules; monitor_id = NoId stands for the argument left out
list_alert_rules(u, monitor_id) ==
    /\ Idle
    /\ LET mine == {r \in Rows(alert_rules) : alert_rules[r].user_id = u}
           rows == IF monitor_id = NoId THEN mine
                   ELSE {r \in mine : alert_rules[r].monitor_id = monitor_id}
       IN resp' = IF monitor_id # NoId /\ get_by_id_and_user(monitor_id, u) = NoId
                  THEN Response("list_alert_rules", u, FALSE,
                                "Monitor not found or access denied", {}, {})
                  ELSE Response("list_alert_rules", u, TRUE, "ok", {},
                                {alert_rules[r].user_id : r \in rows})
    /\ UNCHANGED <<evalVars, lifecycleVars, vaultVars,
                   dbVars, clusterVars, call, lastDeploy, engineVars, dispatchVars>>

\* list_alerts; monitor_id = NoId stands for the argument left out
list_alerts(u, monitor_id) ==
    /\ Idle
    /\ LET mine == {a \in Rows(alerts) : alerts[a].user_id = u}
           rows == IF monitor_id = NoId THEN mine
                   ELSE {a \in mine : alerts[a].monitor_id = monitor_id}
       IN resp' = IF monitor_id # NoId /\ get_by_id_and_user(monitor_id, u) = NoId
                  THEN Response("list_alerts", u, FALSE,
                                "Monitor not found or access denied", {}, {})
                  ELSE Response("list_alerts", u, TRUE, "ok", {},
                                {alerts[a].user_id : a \in rows})
    /\ UNCHANGED <<evalVars, lifecycleVars, vaultVars,
                   dbVars, clusterVars, call, lastDeploy, engineVars, dispatchVars>>

\* ------------------------------------------------------ the rule evaluator
\* A data point maps a field to <<v>>, or to <<>> when the value is None.
Point(field, v) == [f \in {field} |-> <<v>>]
RECURSIVE FieldValues(_, _)
FieldValues(field, data_points) ==
    IF data_points = <<>> THEN <<>>
    ELSE LET point == Head(data_points)
             rest == FieldValues(field, Tail(data_points))
         IN IF field \in DOMAIN point /\ point[field] # <<>>
            THEN <<point[field][1]>> \o rest ELSE rest

RECURSIVE Sum(_)
Sum(values) == IF values = <<>> THEN 0 ELSE Head(values) + Sum(Tail(values))
Max(values) == CHOOSE v \in Range(values) : \A w \in Range(values) : w <= v
Min(values) == CHOOSE v \in Range(values) : \A w \in Range(values) : v <= w
Abs(x) == IF x < 0 THEN -x ELSE x

\* An aggregation whose "latest" takes the last element of the window.
Aggregate_oldest(aggregation, field_values) ==
    IF aggregation = "avg" THEN [num |-> Sum(field_values), den |-> Len(field_values)]
    ELSE IF aggregation = "max" THEN [num |-> Max(field_values), den |-> 1]
    ELSE IF aggregation = "min" THEN [num |-> Min(field_values), den |-> 1]
    ELSE [num |-> field_values[Len(field_values)], den |-> 1]

\* The aggregated value as a fraction [num, den] (avg divides by the count).
Aggregate(aggregation, field_values) ==
    IF aggregation = "avg" THEN [num |-> Sum(field_values), den |-> Len(field_values)]
    ELSE IF aggregation = "max" THEN [num |-> Max(field_values), den |-> 1]
    ELSE IF aggregation = "min" THEN [num |-> Min(field_values), den |-> 1]
    ELSE [num |-> field_values[1], den |-> 1]

\* A comparison whose == and != are exact.
Compare_exact(operator, cur, threshold_value) ==
    LET lhs == cur.num
        rhs == threshold_value * cur.den
    IN IF operator = ">" THEN lhs > rhs
       ELSE IF operator = "<" THEN lhs < rhs
       ELSE IF operator = ">=" THEN lhs >= rhs
       ELSE IF operator = "<=" THEN lhs <= rhs
       ELSE IF operator = "==" THEN lhs = rhs
       ELSE IF operator = "!=" THEN lhs # rhs
       ELSE FALSE

Compare(operator, cur, threshold_value) ==
    LET lhs == cur.num
        rhs == threshold_value * cur.den
    IN IF operator = ">" THEN lhs > rhs
       ELSE IF operator = "<" THEN lhs < rhs
       ELSE IF operator = ">=" THEN lhs >= rhs
       ELSE IF operator = "<=" THEN lhs <= rhs
       ELSE IF operator = "==" THEN Abs(lhs - rhs) < Tolerance * cur.den
       ELSE IF operator = "!=" THEN Abs(lhs - rhs) >= Tolerance * cur.den
       ELSE FALSE

\* An evaluator that reads a window without values as a single zero.
evaluate_condition_zero(condition, data_points) ==
    LET found == FieldValues(Get(condition, "field", "value"), data_points)
        field_values == IF found = <<>> THEN <<0>> ELSE found
    IN IF Get(condition, "type", "threshold") # "threshold" THEN FALSE
       ELSE Compare(Get(condition, "operator", ">"),
                    Aggregate(Get(condition, "aggregation", "latest"), field_values),
                    Get(condition, "value", 0))

\* An evaluator that consults the cooldown store.
evaluate_condition_debounced(condition, data_points) ==
    LET field_values == FieldValues(Get(condition, "field", "value"), data_points)
    IN IF data_points = <<>> \/ field_values = <<>> \/ cooldown # <<>> THEN FALSE
       ELSE IF Get(condition, "type", "threshold") # "threshold" THEN FALSE
       ELSE Compare(Get(condition, "operator", ">"),
                    Aggregate(Get(condition, "aggregation", "latest"), field_values),
                    Get(condition, "value", 0))

\* AlertEngine._evaluate_condition
evaluate_condition(condition, data_points) ==
    LET field_values == FieldValues(Get(condition, "field", "value"), data_points)
    IN IF data_points = <<>> \/ field_values = <<>> THEN FALSE
       ELSE IF Get(condition, "type", "threshold") # "threshold" THEN FALSE
       ELSE Compare(Get(condition, "operator", ">"),
                    Aggregate(Get(condition, "aggregation", "latest"), field_values),
                    Get(condition, "value", 0))

\* Sample windows the sample store returns, newest first.
WindowFiring == <<Point("price", 51000 * Scale), Point("price", 49000 * Scale)>>
WindowQuiet == <<Point("price", 49000 * Scale), Point("price", 51000 * Scale)>>
WindowFour == <<Point("price", 51000 * Scale), Point("price", 52000 * Scale),
                Point("price", 49000 * Scale), Point("price", 48000 * Scale)>>
Windows == {<<>>, WindowFiring, WindowQuiet}

\* The arguments _evaluate_condition is studied on.
NullPoint(field) == [f \in {field} |-> <<>>]
WindowOtherField == <<Point("response_time", 120 * Scale)>>
WindowNull == <<NullPoint("price")>>
WindowNullThenValue == <<NullPoint("price"), Point("price", 51000 * Scale)>>
WindowSpike == <<Point("price", 60000 * Scale), Point("price", 40000 * Scale)>>
WindowThree == <<Point("price", 49000 * Scale), Point("price", 52000 * Scale),
                 Point("price", 48000 * Scale)>>
WindowNear == <<Point("price", 10005)>>
WindowEdge == <<Point("price", 10010)>>
WindowFar == <<Point("price", 10020)>>
WindowBelow == <<Point("price", 9995)>>
EvalWindows == {<<>>, WindowOtherField, WindowNull, WindowNullThenValue, WindowFiring,
                WindowSpike, WindowThree, WindowNear, WindowEdge, WindowFar, WindowBelow}
EvalOperators == {">", "<", ">=", "<=", "==", "!=", "=~"}
EvalAggregations == {"latest", "avg", "max", "min", "median"}
EvalThresholds == {1 * Scale, 50000 * Scale}
CondNoAggregation == [type |-> "threshold", field |-> "price", operator |-> ">",
                      value |-> 50000 * Scale]
EvalConditions ==
    {[type |-> "threshold", field |-> "price", operator |-> o, value |-> v,
      aggregation |-> a] : o \in EvalOperators, v \in EvalThresholds,
                           a \in EvalAggregations}
        \cup {CondIncomplete, CondUnknownType, CondNoAggregation}

\* One call of _evaluate_condition on the arguments under study: it returns
\* its result and assigns nothing.
evaluate_condition_call ==
    /\ Len(verdicts) < MaxEvaluations
    /\ verdicts' = Append(verdicts, evaluate_condition(arg_condition, arg_data_points))
    /\ UNCHANGED <<arg_condition, arg_data_points, dbVars, clusterVars, facadeVars,
                   engineVars, dispatchVars, lifecycleVars, vaultVars>>

\* ------------------------------------------------------ the cooldown store
\* redis EXISTS alert_cooldown:<rule_id>
MarkerPresent(rule_id) == rule_id \in DOMAIN cooldown /\ now < cooldown[rule_id]

\* A ttl computed in minutes where SETEX takes seconds.
cooldown_seconds_unscaled(cooldown_minutes) ==
    IF cooldown_minutes = 0 THEN DefaultCooldownMinutes ELSE cooldown_minutes

\* _set_cooldown: the seconds handed to SETEX
cooldown_seconds(cooldown_minutes) ==
    (IF cooldown_minutes = 0 THEN DefaultCooldownMinutes ELSE cooldown_minutes)
        * SecondsPerMinute

\* _set_cooldown: the store after the call.  SETEX rejects a ttl that is not
\* positive; a rejected or failed write raises and leaves the store as it is.
set_cooldown(rule_id, cooldown_minutes, fault) ==
    IF redis_client /\ ~fault /\ cooldown_seconds(cooldown_minutes) > 0
    THEN Insert(cooldown, rule_id, now + cooldown_seconds(cooldown_minutes))
    ELSE cooldown

\* --------------------------------------------------------- the dispatcher
Channels == {"email", "slack", "discord", "teams"}
WebhookOrder == <<"slack", "discord", "teams">>
WebhookConfigs == {{}, {"slack", "discord"}, {"slack", "discord", "teams"}}
TransportError == 0
Is2xx(code) == 200 <= code /\ code < 300

\* What the sinks answer to a POST, per channel.
SinkProfiles ==
    {[email |-> 202, slack |-> 200, discord |-> 200, teams |-> 200],
     [email |-> 202, slack |-> 500, discord |-> 200, teams |-> 200],
     [email |-> 500, slack |-> 200, discord |-> 500, teams |-> TransportError],
     [email |-> TransportError, slack |-> 500, discord |-> 500, teams |-> 500]}

\* _send_email_notification inside send_alert_notification's try block:
\* without a SendGrid client it returns without sending and without raising.
EmailCalled == sendgrid_client
EmailDelivered(sink) == ~sendgrid_client \/ Is2xx(sink.email)

\* _send_slack/_discord/_teams_notification, in the order of
\* send_alert_notification: each enters "async with self.http_client", which
\* raises unless the client has never been opened, and closes it on exit.
RECURSIVE SendWebhooks(_, _, _)
SendWebhooks(order, client, sink) ==
    IF order = <<>> THEN [called |-> {}, delivered |-> {}, client |-> client]
    ELSE LET ch == Head(order)
         IN IF ch \notin webhooks THEN SendWebhooks(Tail(order), client, sink)
            ELSE IF client # "unopened"
            THEN SendWebhooks(Tail(order), client, sink)
            ELSE LET rest == SendWebhooks(Tail(order), "closed", sink)
                 IN [called |-> rest.called \cup {ch},
                     delivered |-> rest.delivered
                                   \cup (IF Is2xx(sink[ch]) THEN {ch} ELSE {}),
                     client |-> rest.client]

\* A dispatch that gives up when the email send raises.
DeliveredChannels_abort(sink) ==
    IF EmailDelivered(sink)
    THEN {"email"} \cup SendWebhooks(WebhookOrder, http_client, sink).delivered
    ELSE {}

\* send_alert_notification: the channels for which an HTTP request is made
CalledChannels(sink) ==
    (IF EmailCalled THEN {"email"} ELSE {})
    \cup SendWebhooks(WebhookOrder, http_client, sink).called

\* send_alert_notification: the channels appended to delivered_channels
DeliveredChannels(sink) ==
    (IF EmailDelivered(sink) THEN {"email"} ELSE {})
    \cup SendWebhooks(WebhookOrder, http_client, sink).delivered

\* A row left pending when no channel took the alert.
DeliveryStatus_pending(delivered_channels) ==
    IF delivered_channels # {} THEN "delivered" ELSE "pending"

\* A dispatch that returns before the row is written.
update_alert_delivery_status_skipped(alert_id, delivered_channels) == alerts

\* A delivery update that copies the rule's title again.
update_alert_delivery_status_retitled(alert_id, delivered_channels) ==
    [alerts EXCEPT ![alert_id].delivered_channels = delivered_channels,
                   ![alert_id].delivered_at = now,
                   ![alert_id].status = IF delivered_channels # {} THEN "delivered"
                                        ELSE "failed",
                   ![alert_id].title = alert_rules[alerts[alert_id].rule_id].title]

\* A dispatch that takes back the row of an alert no channel took.
update_alert_delivery_status_rollback(alert_id, delivered_channels) ==
    IF delivered_channels = {} THEN Delete(alerts, {alert_id})
    ELSE [alerts EXCEPT ![alert_id].delivered_channels = delivered_channels,
                        ![alert_id].delivered_at = now,
                        ![alert_id].status = "delivered"]

\* _update_alert_delivery_status
DeliveryStatus(delivered_channels) ==
    IF delivered_channels # {} THEN "delivered" ELSE "failed"
update_alert_delivery_status(alert_id, delivered_channels) ==
    IF alert_id \in Rows(alerts)
    THEN [alerts EXCEPT ![alert_id].delivered_channels = delivered_channels,
                        ![alert_id].delivered_at = now,
                        ![alert_id].status = DeliveryStatus(delivered_channels)]
    ELSE alerts

\* ---------------------------------------------------------- the alert engine
NoEval == [rule_id |-> NoId]
NoDispatch == [alert_id |-> NoId]

\* AlertEngine.start: _init_redis, running = True
engine_start(connected) ==
    /\ pc = "init"
    /\ redis_client' = connected
    /\ running' = TRUE
    /\ pc' = "idle"
    /\ UNCHANGED <<evalVars, lifecycleVars, vaultVars,
                   dbVars, clusterVars, facadeVars, cooldown, now, loaded, curAlert,
                   lastEval, fired, dispatchVars>>

RECURSIVE Ascending(_)
Ascending(ids) ==
    IF ids = {} THEN <<>>
    ELSE LET least == CHOOSE x \in ids : \A y \in ids : x <= y
         IN <<least>> \o Ascending(ids \ {least})

\* _evaluation_cycle: the query for the active rules
ActiveRules ==
    LET ids == Ascending({r \in Rows(alert_rules) : alert_rules[r].is_active})
    IN [i \in 1..Len(ids) |-> [id |-> ids[i], row |-> alert_rules[ids[i]]]]

\* _evaluation_cycle up to its loop.  query_fault: the query raises, which
\* ends the tick in start's except branch, before any rule is looked at.
evaluation_cycle(query_fault) ==
    /\ pc = "idle"
    /\ running
    /\ loaded' = IF query_fault THEN <<>> ELSE ActiveRules
    /\ tick_error' = IF query_fault THEN now ELSE tick_error
    /\ pc' = "eval"
    /\ UNCHANGED <<evalVars, shutdown_event, main_pc, redis_closed, vaultVars,
                   dbVars, clusterVars, facadeVars, redis_client, cooldown, now, running,
                   curAlert, lastEval, fired, dispatchVars>>

\* _create_alert: the row inserted for a rule loaded by the tick
NewAlert(rule, trigger_data) ==
    [rule_id |-> rule.id, monitor_id |-> rule.row.monitor_id,
     user_id |-> rule.row.user_id, severity |-> rule.row.severity,
     title |-> rule.row.title,
     data |-> [trigger_data |-> SubSeq(trigger_data, 1,
                                       IF Len(trigger_data) < TriggerDataLen
                                       THEN Len(trigger_data) ELSE TriggerDataLen),
               condition |-> rule.row.condition],
     status |-> "pending", delivered_channels |-> {}, delivered_at |-> NoTime,
     acknowledged_at |-> NoTime, created_at |-> now]

\* The alert insert commits only while the rows its foreign keys name exist.
AlertInsertable(rule) ==
    /\ rule.id \in Rows(alert_rules)
    /\ rule.row.monitor_id \in Rows(monitors)

\* _is_in_cooldown: True when the marker is there; False without a client
is_in_cooldown(rule_id) == redis_client /\ MarkerPresent(rule_id)

\* The rule fired before, the cooldown store has been reachable ever since,
\* and the cooldown_minutes it fired with have not yet passed.
WithinCooldown(rule_id) ==
    /\ rule_id \in DOMAIN fired
    /\ fired[rule_id].reachable
    /\ now - fired[rule_id].at < fired[rule_id].cooldown_minutes * SecondsPerMinute

\* The rule fired before, its marker was written and no call to the cooldown
\* store has failed since, and the marker's ttl has run out.
MarkerExpired(rule_id) ==
    /\ rule_id \in DOMAIN fired
    /\ fired[rule_id].reachable
    /\ cooldown_seconds(fired[rule_id].cooldown_minutes) > 0
    /\ ~MarkerPresent(rule_id)

\* A loop that a raising rule leaves.
AfterRule_abort(rules, raised) == IF raised THEN <<>> ELSE Tail(rules)

\* _evaluation_cycle's loop: what is left of the rule list after one rule,
\* whether _evaluate_rule returned or raised.
AfterRule(rules, raised) == Tail(rules)

\* _evaluate_rule up to the commit of the alert row.  window: the data points
\* the monitor has in the last five minutes, read only when the cooldown
\* check lets the rule through; exists_fault: the EXISTS call raises;
\* set_fault: the SETEX call raises.
evaluate_rule(exists_fault, window, set_fault) ==
    /\ pc = "eval"
    /\ loaded # <<>>
    /\ exists_fault => redis_client
    /\ LET rule == Head(loaded)
           raised == exists_fault
           skipped == raised \/ is_in_cooldown(rule.id)
           cond == evaluate_condition(rule.row.condition, window)
           triggered == ~skipped /\ cond
           found == rule.row.monitor_id \in Rows(monitors)
           created == triggered /\ found /\ AlertInsertable(rule)
           aid == nextId.alert
       IN /\ set_fault => (triggered /\ ~created /\ redis_client)
          /\ created => aid <= MaxAlerts
          /\ lastEval' = [rule_id |-> rule.id, marker |-> MarkerPresent(rule.id),
                          store_ok |-> redis_client /\ ~raised, pulled |-> ~skipped,
                          cond |-> cond,
                          created |-> IF created THEN aid ELSE NoId,
                          active |-> rule.id \in Rows(alert_rules)
                                     /\ alert_rules[rule.id].is_active,
                          expired |-> MarkerExpired(rule.id),
                          early |-> WithinCooldown(rule.id)]
          /\ IF created
             THEN /\ alerts' = Insert(alerts, aid, NewAlert(rule, window))
                  /\ nextId' = [nextId EXCEPT !.alert = aid + 1]
                  /\ curAlert' = aid
                  /\ pc' = "notify"
                  /\ fired' = Insert(fired, rule.id,
                                     [at |-> now, cooldown_minutes |-> rule.row.cooldown_minutes,
                                      reachable |-> redis_client])
                  /\ UNCHANGED <<loaded, cooldown>>
             ELSE /\ loaded' = AfterRule(loaded, raised \/ set_fault)
                  /\ cooldown' = IF triggered
                                 THEN set_cooldown(rule.id, rule.row.cooldown_minutes, set_fault)
                                 ELSE cooldown
                  /\ fired' = IF raised /\ rule.id \in DOMAIN fired
                              THEN [fired EXCEPT ![rule.id].reachable = FALSE]
                              ELSE fired
                  /\ UNCHANGED <<alerts, nextId, curAlert, pc>>
    /\ UNCHANGED <<evalVars, lifecycleVars, vaultVars,
                   monitors, secrets, alert_rules, clusterVars, facadeVars, redis_client,
                   now, running, dispatchVars>>

\* The rest of _evaluate_rule: send_alert_notification for the committed
\* alert, _update_alert_delivery_status, then _set_cooldown.
notify(sink, set_fault) ==
    /\ pc = "notify"
    /\ set_fault => redis_client
    /\ LET rule == Head(loaded)
           sent == SendWebhooks(WebhookOrder, http_client, sink)
           delivered == DeliveredChannels(sink)
       IN /\ alerts' = update_alert_delivery_status(curAlert, delivered)
          /\ http_client' = sent.client
          /\ lastDispatch' = [alert_id |-> curAlert, sink |-> sink,
                             called |-> CalledChannels(sink)]
          /\ cooldown' = set_cooldown(rule.id, rule.row.cooldown_minutes, set_fault)
          /\ fired' = IF set_fault THEN [fired EXCEPT ![rule.id].reachable = FALSE]
                      ELSE fired
    /\ loaded' = AfterRule(loaded, set_fault)
    /\ curAlert' = NoId
    /\ pc' = "eval"
    /\ UNCHANGED <<evalVars, lifecycleVars, vaultVars,
                   monitors, secrets, alert_rules, nextId, clusterVars, facadeVars,
                   redis_client, now, running, lastEval, sendgrid_client, webhooks>>

\* A loop that a raising tick ends.
AfterTick_exit(raised) == IF raised THEN "done" ELSE "idle"

\* AlertEngine.start: where the loop stands after the sleep that follows a
\* tick, in the try branch or in the except branch.
AfterTick(raised) == "idle"

\* The sleep between two ticks; markers whose ttl has run out are gone.
sleep ==
    /\ pc = "eval"
    /\ loaded = <<>>
    /\ now + EvaluationInterval <= MaxTime
    /\ now' = now + EvaluationInterval
    /\ cooldown' = [r \in {x \in DOMAIN cooldown : now' < cooldown[x]} |-> cooldown[r]]
    /\ pc' = AfterTick(tick_error = now)
    /\ UNCHANGED <<evalVars, lifecycleVars, vaultVars,
                   dbVars, clusterVars, facadeVars, redis_client, running, loaded,
                   curAlert, lastEval, fired, dispatchVars>>

\* AuthManager.__init__ in a new facade process with the same MASTER_KEY:
\* _derive_encryption_key computes the PBKDF2 bytes and returns
\* Fernet.generate_key(), a key no process had before.
auth_manager_init ==
    /\ call.op = "none"
    /\ encryption_key < MaxKeys
    /\ encryption_key' = encryption_key + 1
    /\ UNCHANGED <<evalVars, lifecycleVars, log, dbVars, clusterVars,
                   facadeVars, engineVars, dispatchVars>>

\* start_alert_engine.main: the handler registered for SIGTERM and SIGINT.
\* It sets the event that one of gather's three awaitables waits for, and
\* nothing else: gather returns only when all three have returned.
signal_handler ==
    /\ main_pc = "gather"
    /\ ~shutdown_event
    /\ shutdown_event' = TRUE
    /\ UNCHANGED <<evalVars, main_pc, tick_error, redis_closed, vaultVars,
                   dbVars, clusterVars, facadeVars, engineVars, dispatchVars>>

\* start_alert_engine.main: HealthServer.start raises (its port cannot be
\* bound), gather raises, the except branch logs and the finally branch
\* awaits AlertEngine.stop; main returns and the engine's task is cancelled
\* where it stands.
service_error ==
    /\ main_pc = "gather"
    /\ main_pc' = "stopped"
    /\ running' = FALSE
    /\ redis_closed' = redis_client
    /\ pc' = "done"
    /\ UNCHANGED <<evalVars, shutdown_event, tick_error, vaultVars,
                   dbVars, clusterVars, facadeVars, redis_client, cooldown, now, loaded,
                   curAlert, lastEval, fired, dispatchVars>>

\* ------------------------------------------------------------------ system
InitSystem ==
    /\ monitors = <<>> /\ secrets = <<>> /\ alert_rules = <<>> /\ alerts = <<>>
    /\ nextId = [monitor |-> 1, secret |-> 1, rule |-> 1, alert |-> 1]
    /\ k8s_client \in BOOLEAN
    /\ deployments = <<>> /\ k8s_secrets = <<>>
    /\ applies = [p \in Appliers |-> NoApply]
    /\ call = NoCall
    /\ resp = Response("none", "none", TRUE, "none", {}, {})
    /\ lastDeploy = [monitor_id |-> NoId]
    /\ redis_client = FALSE
    /\ cooldown = <<>>
    /\ now = 0
    /\ running = FALSE
    /\ pc = "init"
    /\ loaded = <<>>
    /\ curAlert = NoId
    /\ sendgrid_client \in BOOLEAN
    /\ webhooks \in WebhookConfigs
    /\ http_client = "unopened"
    /\ lastEval = NoEval
    /\ lastDispatch = NoDispatch
    /\ fired = <<>>
    /\ shutdown_event = FALSE /\ main_pc = "gather"
    /\ tick_error = NoTime /\ redis_closed = FALSE
    /\ encryption_key = 1 /\ log = {}

Init ==
    /\ InitSystem
    /\ arg_condition = CondLatestGt /\ arg_data_points = <<>> /\ verdicts = <<>>

MonitorIds == 1..MaxMonitors
RuleIds == 1..MaxRules
AlertIds == 1..MaxAlerts

Next ==
    \/ \E u \in Users, s \in SecretInputs : create_monitor(u, s)
    \/ \E f \in DeployFaults : create_monitor_deploy(f)
    \/ \E m \in MonitorIds, f \in DeployFaults : deploy_monitor(m, f)
    \/ \E p \in Appliers, m \in MonitorIds : deploy_monitor_read(p, m)
    \/ \E p \in Appliers, f \in BOOLEAN : deploy_monitor_write(p, f)
    \/ \E u \in Users, m \in MonitorIds, f \in BOOLEAN : delete_monitor(u, m, f)
    \/ \E u \in Users, m \in MonitorIds, t \in TitleInputs, c \in ConditionInputs,
          sv \in SeverityInputs, cd \in CooldownInputs :
            create_alert_rule(u, m, t, c, sv, cd)
    \/ \E u \in Users, r \in RuleIds, p \in PatchInputs : update_alert_rule(u, r, p)
    \/ \E u \in Users, r \in RuleIds : delete_alert_rule(u, r)
    \/ \E u \in Users, a \in AlertIds : acknowledge_alert(u, a)
    \/ \E u \in Users : list_monitors(u)
    \/ \E u \in Users, m \in MonitorIds : get_monitor_status(u, m)
    \/ \E u \in Users, m \in MonitorIds, o \in WorkloadReads, f \in ReadFaults :
            get_deployment_status(u, m, o, f)
    \/ \E u \in Users, m \in MonitorIds : get_monitor_data(u, m)
    \/ \E u \in Users, m \in MonitorIds \cup {NoId} : list_alert_rules(u, m)
    \/ \E u \in Users, m \in MonitorIds \cup {NoId} : list_alerts(u, m)
    \/ \E c \in BOOLEAN : engine_start(c)
    \/ \E query_fault \in BOOLEAN : evaluation_cycle(query_fault)
    \/ signal_handler
    \/ service_error
    \/ auth_manager_init
    \/ \E ef \in BOOLEAN, w \in Windows, sf \in BOOLEAN : evaluate_rule(ef, w, sf)
    \/ \E sink \in SinkProfiles, sf \in BOOLEAN : notify(sink, sf)
    \/ sleep
    \/ evaluate_condition_call

Spec == Init /\ [][Next]_vars

\* ------------------------------------------------- the engine on its own
\* One tenant creates a monitor and its rules and switches rules off and on
\* while the engine ticks, with every fault of the cooldown store.
Tenant == "usr_a"
SinkHealthy == [email |-> 202, slack |-> 200, discord |-> 200, teams |-> 200]

InitCooldown ==
    /\ Init
    /\ k8s_client /\ sendgrid_client /\ webhooks = {}

NextCooldown ==
    \/ nextId.monitor = 1 /\ create_monitor(Tenant, NoSecrets)
    \/ create_monitor_deploy("none")
    \/ \E cd \in CooldownInputs \cap Nat :
            /\ nextId.rule <= CooldownRules
            /\ create_alert_rule(Tenant, 1, "t1", CondLatestGt, "high", cd)
    \/ \E r \in Rows(alert_rules) :
            /\ \A x \in Rows(alert_rules) : alert_rules[x].is_active
            /\ update_alert_rule(Tenant, r, [is_active |-> FALSE])
    \/ \E c \in BOOLEAN : engine_start(c)
    \/ evaluation_cycle(FALSE)
    \/ \E ef \in BOOLEAN, w \in Windows, sf \in BOOLEAN : evaluate_rule(ef, w, sf)
    \/ \E sf \in BOOLEAN : notify(SinkHealthy, sf)
    \/ sleep

SpecCooldown == InitCooldown /\ [][NextCooldown]_vars

\* C1: an evaluation of a rule that takes place within the cooldown_minutes
\* the rule last fired with, the cooldown store having been reachable since
\* that firing, creates no alert row.
C1_NoAlertWithinCooldown ==
    (lastEval.rule_id # NoId /\ lastEval.early) => lastEval.created = NoId

\* A rule that fired is evaluated again inside its cooldown with its
\* condition true, and is suppressed by the marker.
C1_SuppressedInsideCooldown ==
    /\ lastEval.rule_id # NoId
    /\ lastEval.early /\ lastEval.marker /\ lastEval.cond /\ lastEval.active
    /\ lastEval.created = NoId

\* C7: when the cooldown store is unavailable at an evaluation (no connection
\* since startup, or the presence check fails), the rule's window is still
\* pulled and evaluated, and a true condition creates an alert.
C7_UnavailableStoreStillEvaluates ==
    (lastEval.rule_id # NoId /\ ~lastEval.store_ok)
        => (lastEval.pulled /\ (lastEval.cond => lastEval.created # NoId))

\* C8: the marker written at a firing lives max(cooldown_minutes, 0) * 60
\* seconds, and a rule with cooldown_minutes = 0 gets no marker.
C8_MarkerTtl ==
    \A r \in DOMAIN fired :
        /\ r \in DOMAIN cooldown =>
              cooldown[r] - fired[r].at
                  = (IF fired[r].cooldown_minutes < 0 THEN 0
                     ELSE fired[r].cooldown_minutes) * SecondsPerMinute
        /\ fired[r].cooldown_minutes = 0 => r \notin DOMAIN cooldown

\* C9: a rule that fired, whose marker has expired, that is still active and
\* whose condition is true on the window of the tick, gets a second alert
\* row from that tick.
C9_RefiresAfterCooldown ==
    (/\ lastEval.rule_id # NoId
     /\ lastEval.expired
     /\ lastEval.active /\ lastEval.cond)
        => lastEval.created # NoId

\* ------------------------------------------------ dispatch and acknowledge
\* One tenant's rule fires on every tick (no cooldown store); the dispatcher
\* runs with every channel configuration against every sink profile while the
\* tenant acknowledges alerts.
SinkPartial == [email |-> 202, slack |-> 500, discord |-> 200, teams |-> 200]

InitDispatch == Init /\ k8s_client

NextDispatch ==
    \/ nextId.monitor = 1 /\ create_monitor(Tenant, NoSecrets)
    \/ create_monitor_deploy("none")
    \/ nextId.rule = 1 /\ create_alert_rule(Tenant, 1, "t1", CondLatestGt, "high", 0)
    \/ engine_start(FALSE)
    \/ evaluation_cycle(FALSE)
    \/ \E w \in Windows : evaluate_rule(FALSE, w, FALSE)
    \/ \E sink \in SinkProfiles : notify(sink, FALSE)
    \/ now < DispatchTicks * EvaluationInterval /\ sleep
    \/ \E a \in Rows(alerts) : acknowledge_alert(Tenant, a)

SpecDispatch == InitDispatch /\ [][NextDispatch]_vars

\* C2: after a dispatch, delivered_channels of the dispatched alert holds a
\* channel exactly when an HTTP call for that channel was made and answered
\* 2xx; with email and the block-style (slack) and embed-style (discord)
\* webhooks configured and answering 202, 500 and 200, the row ends with
\* delivered_channels = {email, discord} and status delivered.
C2_DeliveredChannelsExact ==
    (lastDispatch.alert_id # NoId /\ pc # "notify"
     /\ alerts[lastDispatch.alert_id].status \in {"delivered", "failed"})
        => /\ alerts[lastDispatch.alert_id].delivered_channels
                 = {ch \in lastDispatch.called : Is2xx(lastDispatch.sink[ch])}
           /\ (/\ sendgrid_client /\ webhooks = {"slack", "discord"}
               /\ lastDispatch.sink = SinkPartial)
                  => /\ alerts[lastDispatch.alert_id].delivered_channels
                           = {"email", "discord"}
                     /\ alerts[lastDispatch.alert_id].status = "delivered"

\* C10 as stated: for every alert row, status is delivered or failed exactly
\* when delivered_at is set.
C10_StatusIffDeliveredAt ==
    \A a \in Rows(alerts) :
        alerts[a].status \in {"delivered", "failed"} <=> alerts[a].delivered_at # NoTime

\* C10, amended: a row whose status is delivered or failed has delivered_at
\* set, and a row with delivered_at set is delivered, failed or, once the
\* owner acknowledged it, acknowledged.
C10_StatusAndDeliveredAt ==
    \A a \in Rows(alerts) :
        /\ alerts[a].status \in {"delivered", "failed"} => alerts[a].delivered_at # NoTime
        /\ alerts[a].delivered_at # NoTime
              => alerts[a].status \in {"delivered", "failed", "acknowledged"}

\* A dispatch that reached no channel has run, and a delivered alert has
\* been acknowledged.
C10_AcknowledgedAfterDelivery ==
    /\ \E a \in Rows(alerts) :
          alerts[a].status = "acknowledged" /\ alerts[a].delivered_at # NoTime
    /\ \E a \in Rows(alerts) : alerts[a].status = "failed"

\* ---------------------------------------------------- referential integrity
\* One tenant creates and deletes monitors and rules while the engine ticks
\* and fires, the rule list of a tick going stale under the deletions.
NextIntegrity ==
    \/ nextId.monitor <= IntegrityMonitors /\ create_monitor(Tenant, NoSecrets)
    \/ create_monitor_deploy("none")
    \/ \E m \in Rows(monitors) : delete_monitor(Tenant, m, FALSE)
    \/ \E m \in MonitorIds : create_alert_rule(Tenant, m, "t1", CondLatestGt, "high", 0)
    \/ \E r \in Rows(alert_rules) : delete_alert_rule(Tenant, r)
    \/ engine_start(FALSE)
    \/ evaluation_cycle(FALSE)
    \/ \E w \in {<<>>, WindowFiring} : evaluate_rule(FALSE, w, FALSE)
    \/ notify(SinkHealthy, FALSE)
    \/ now < IntegrityTicks * EvaluationInterval /\ sleep

SpecIntegrity == InitCooldown /\ [][NextIntegrity]_vars

\* C3: every alert row's rule_id names a row of alert_rules and its
\* monitor_id a row of monitors.
C3_AlertsReferToRows ==
    \A a \in Rows(alerts) :
        /\ alerts[a].rule_id \in Rows(alert_rules)
        /\ alerts[a].monitor_id \in Rows(monitors)

\* An alert exists, the deletion of the rule or monitor it names has just
\* been refused, and a rule loaded by a tick was deleted before the tick got
\* to fire it.
C3_DeleteRefusedAndStaleRule ==
    /\ Rows(alerts) # {}
    /\ resp.op \in {"delete_alert_rule", "delete_monitor"}
    /\ resp.message \in {"Failed to delete alert rule", "Failed to delete monitor"}
    /\ lastEval.rule_id # NoId /\ lastEval.rule_id \notin Rows(alert_rules)
    /\ lastEval.cond /\ lastEval.created = NoId

\* ------------------------------------------------------- repeated apply
\* Monitors are created with and without secrets and deploy_monitor is called
\* again for the monitor last applied, against a cluster that is absent
\* (simulated), healthy, or failing at any of its calls.
NextApply ==
    \/ \E s \in SecretInputs : create_monitor(Tenant, s)
    \/ \E f \in DeployFaults : create_monitor_deploy(f)
    \/ \E m \in MonitorIds, f \in DeployFaults : deploy_monitor(m, f)

SpecApply == Init /\ [][NextApply]_vars

\* C6: after one or more successive deploy_monitor calls for a monitor, all
\* answered "deployed" by a reachable cluster, the cluster holds exactly one
\* workload monitor-<id> and exactly one secret object monitor-<id>-secrets,
\* the workload's spec is the one the first call left, and every call
\* returned the first call's workload id.
C6_ApplyIdempotent ==
    (lastDeploy.monitor_id # NoId /\ k8s_client /\ lastDeploy.all_deployed)
        => /\ lastDeploy.workloads = {DeploymentName(lastDeploy.monitor_id)}
           /\ lastDeploy.secret_objects = {SecretName(lastDeploy.monitor_id)}
           /\ lastDeploy.spec = lastDeploy.first_spec
           /\ lastDeploy.result.deployment_id = lastDeploy.first_id

\* ------------------------------------------------------ the facade, shared
\* Two users call every tool on each other's identifiers while the engine
\* fires, in one tick, the one rule there is.
InitFacade == Init /\ k8s_client /\ sendgrid_client /\ webhooks = {}

NextFacade ==
    \/ \E u \in Users :
            nextId.monitor <= FacadeMonitors /\ create_monitor(u, OneSecret)
    \/ create_monitor_deploy("none")
    \/ \E u \in Users, m \in 1..FacadeMonitors : delete_monitor(u, m, FALSE)
    \/ \E u \in Users, m \in 1..FacadeMonitors :
            nextId.rule = 1
            /\ create_alert_rule(u, m, "t1", CondLatestGt, "high", 0)
    \/ \E u \in Users, r \in {1} : update_alert_rule(u, r, [is_active |-> FALSE])
    \/ \E u \in Users, r \in {1} : delete_alert_rule(u, r)
    \/ \E u \in Users, a \in {1} : acknowledge_alert(u, a)
    \/ \E u \in Users : list_monitors(u)
    \/ \E u \in Users, m \in 1..FacadeMonitors : get_monitor_status(u, m)
    \/ \E u \in Users, m \in 1..FacadeMonitors :
            get_deployment_status(u, m, StatusReady, "none")
    \/ \E u \in Users, m \in 1..FacadeMonitors : get_monitor_data(u, m)
    \/ \E u \in Users, m \in 0..FacadeMonitors : list_alert_rules(u, m)
    \/ \E u \in Users, m \in 0..FacadeMonitors : list_alerts(u, m)
    \/ engine_start(FALSE)
    \/ evaluation_cycle(FALSE)
    \/ evaluate_rule(FALSE, WindowFiring, FALSE)
    \/ notify(SinkHealthy, FALSE)

SpecFacade == InitFacade /\ [][NextFacade]_vars

\* C4: the rows a facade call created, changed or deleted, and the rows whose
\* data its response carries, all belong to the caller.
C4_OnlyTheCallersRows ==
    /\ resp.touched \subseteq {resp.caller}
    /\ resp.returned \subseteq {resp.caller}
    /\ call.op # "none" => call.touched \subseteq {call.user}

\* Both users own rows, and the last call was made by one of them on an
\* identifier of the other and was turned away.
C4_ForeignCallRefused ==
    /\ \E m \in Rows(monitors), a \in Rows(alerts) :
          monitors[m].user_id # resp.caller /\ alerts[a].user_id # resp.caller
    /\ resp.op \in {"delete_monitor", "update_alert_rule", "delete_alert_rule",
                     "acknowledge_alert", "get_monitor_status", "get_monitor_data"}
    /\ ~resp.success
    /\ resp.touched = {} /\ resp.returned = {}

\* C5: when deploy_monitor answers "failed" inside create_monitor, the monitor
\* row was there before the call and is left with status error.
C5_FailedApplyMarksError ==
    (lastDeploy.monitor_id # NoId /\ lastDeploy.result.status = "failed")
        => (lastDeploy.row_present /\ lastDeploy.row_status = "error")

\* ------------------------------------------------------- rule validation
\* One tenant creates and updates rules with every condition, severity and
\* cooldown of the input sets, and the engine evaluates what was stored.
NextValidation ==
    \/ nextId.monitor = 1 /\ create_monitor(Tenant, NoSecrets)
    \/ create_monitor_deploy("none")
    \/ \E c \in ConditionInputs, s \in SeverityInputs, cd \in CooldownInputs :
            nextId.rule <= ValidationRules
            /\ create_alert_rule(Tenant, 1, "t1", c, s, cd)
    \/ \E r \in 1..ValidationRules, p \in PatchInputs : update_alert_rule(Tenant, r, p)
    \/ engine_start(TRUE)
    \/ evaluation_cycle(FALSE)
    \/ evaluate_rule(FALSE, WindowFiring, FALSE)
    \/ notify(SinkHealthy, FALSE)

SpecValidation == InitCooldown /\ [][NextValidation]_vars

\* ---------------------------------------------------------- the evaluator
\* _evaluate_condition is called on a condition and a window drawn from the
\* input sets, any number of times, while the tenant stores the condition in
\* a rule and the engine runs a tick on the window.
InitEvaluator ==
    /\ InitSystem /\ k8s_client /\ sendgrid_client /\ webhooks = {}
    /\ arg_condition \in EvalConditions /\ arg_data_points \in EvalWindows
    /\ verdicts = <<>>

NextEvaluator ==
    \/ evaluate_condition_call
    \/ nextId.monitor = 1 /\ create_monitor(Tenant, NoSecrets)
    \/ create_monitor_deploy("none")
    \/ nextId.rule = 1 /\ create_alert_rule(Tenant, 1, "t1", arg_condition, "high", 0)
    \/ engine_start(TRUE)
    \/ evaluation_cycle(FALSE)
    \/ evaluate_rule(FALSE, arg_data_points, FALSE)
    \/ notify(SinkHealthy, FALSE)

SpecEvaluator == InitEvaluator /\ [][NextEvaluator]_vars

\* C11: a monitor row has a deployment_id exactly when its status is
\* deploying, running or error.
C11_WorkloadIdIffStatus ==
    \A m \in Rows(monitors) :
        monitors[m].deployment_id # NoDeployment
            <=> monitors[m].status \in {"deploying", "running", "error"}

\* create_monitor has completed twice against a configured cluster: once
\* with the apply answered "deployed", once with the apply failed.
C11_AppliedAndFailed ==
    /\ lastDeploy.monitor_id # NoId /\ call.op = "none"
    /\ lastDeploy.result.status = "failed" /\ lastDeploy.row_status = "starting"
    /\ \E m \in Rows(monitors) :
          monitors[m].status = "deploying" /\ monitors[m].deployment_id = DeploymentName(m)

\* C12: every secret id held in a monitor row's secret_ids names a row of the
\* secrets table that belongs to the monitor's user.
C12_SecretRefsExist ==
    \A m \in Rows(monitors) :
        \A sid \in Range(monitors[m].secret_ids) :
            sid \in Rows(secrets) /\ secrets[sid].user_id = monitors[m].user_id

C14_StoredTypeThreshold ==
    \A r \in Rows(alert_rules) : alert_rules[r].condition.type = "threshold"

\* C15: every stored alert rule has cooldown_minutes >= 0.
C15_StoredCooldownNonNegative ==
    \A r \in Rows(alert_rules) : alert_rules[r].cooldown_minutes >= 0

\* C16: for every facade operation that targets a monitor, rule or alert by
\* id, a call on an id that names no row and a call on an id that names a row
\* of another user have the same outcome (the same response and the same
\* next state), and that outcome is a refusal that leaves the tables and the
\* cluster as they were.  (A step can only be a call of operation op by user
\* u when the response it leaves names op and u, so each pair of calls is
\* compared on the steps that leave such a response.)
C16_NotFoundIndistinguishable ==
    [][\A u \in {resp'.caller} \cap Users :
        /\ \A i \in (1..nextId.monitor) \ Rows(monitors),
              j \in {m \in Rows(monitors) : monitors[m].user_id # u} :
              /\ resp'.op = "delete_monitor"
                    => (delete_monitor(u, i, FALSE) <=> delete_monitor(u, j, FALSE))
              /\ resp'.op = "get_monitor_status"
                    => (get_monitor_status(u, i) <=> get_monitor_status(u, j))
              /\ resp'.op = "get_deployment_status"
                    => (get_deployment_status(u, i, StatusReady, "none")
                          <=> get_deployment_status(u, j, StatusReady, "none"))
              /\ resp'.op = "get_monitor_data"
                    => (get_monitor_data(u, i) <=> get_monitor_data(u, j))
              /\ resp'.op = "list_alert_rules"
                    => (list_alert_rules(u, i) <=> list_alert_rules(u, j))
              /\ resp'.op = "list_alerts"
                    => (list_alerts(u, i) <=> list_alerts(u, j))
              /\ resp'.op = "create_alert_rule"
                    => (create_alert_rule(u, i, "t1", CondLatestGt, "high", 0)
                          <=> create_alert_rule(u, j, "t1", CondLatestGt, "high", 0))
              /\ ( \/ delete_monitor(u, j, FALSE) \/ get_monitor_status(u, j)
                   \/ get_deployment_status(u, j, StatusReady, "none")
                   \/ get_monitor_data(u, j)
                   \/ list_alert_rules(u, j) \/ list_alerts(u, j)
                   \/ create_alert_rule(u, j, "t1", CondLatestGt, "high", 0) )
                 => (~resp'.success /\ UNCHANGED <<dbVars, clusterVars>>)
        /\ \A i \in (1..nextId.rule) \ Rows(alert_rules),
              j \in {r \in Rows(alert_rules) : alert_rules[r].user_id # u} :
              /\ resp'.op = "update_alert_rule"
                    => (update_alert_rule(u, i, [is_active |-> FALSE])
                          <=> update_alert_rule(u, j, [is_active |-> FALSE]))
              /\ resp'.op = "delete_alert_rule"
                    => (delete_alert_rule(u, i) <=> delete_alert_rule(u, j))
              /\ (update_alert_rule(u, j, [is_active |-> FALSE]) \/ delete_alert_rule(u, j))
                 => (~resp'.success /\ UNCHANGED <<dbVars, clusterVars>>)
        /\ \A i \in (1..nextId.alert) \ Rows(alerts),
              j \in {a \in Rows(alerts) : alerts[a].user_id # u} :
              /\ resp'.op = "acknowledge_alert"
                    => (acknowledge_alert(u, i) <=> acknowledge_alert(u, j))
              /\ acknowledge_alert(u, j)
                 => (~resp'.success /\ UNCHANGED <<dbVars, clusterVars>>)
      ]_vars

\* The other user's monitor, rule and alert all exist, and the caller's
\* deletion of that rule has just been answered "not found or access denied".
C16_ForeignRuleDeletionRefused ==
    /\ resp.op = "delete_alert_rule" /\ ~resp.success
    /\ \E m \in Rows(monitors), r \in Rows(alert_rules), a \in Rows(alerts) :
          /\ monitors[m].user_id # resp.caller
          /\ alert_rules[r].user_id # resp.caller
          /\ alerts[a].user_id # resp.caller

\* C17: when the window is empty or none of its samples carries a value that
\* is not None for the condition's field, every call of _evaluate_condition
\* returns False, whatever the operator, aggregation and threshold, and the
\* engine's evaluation of a rule with this condition on this window creates
\* no alert row.
C17_NoValuesNeverFires ==
    LET field == Get(arg_condition, "field", "value")
    IN (\A i \in DOMAIN arg_data_points :
            field \notin DOMAIN arg_data_points[i] \/ arg_data_points[i][field] = <<>>)
        => /\ \A k \in DOMAIN verdicts : verdicts[k] = FALSE
           /\ (lastEval.rule_id # NoId /\ lastEval.pulled)
                => (~lastEval.cond /\ lastEval.created = NoId)
           /\ alerts = <<>>

\* A window of samples that carry only another field, or None, was evaluated
\* twice directly and once by the engine for a stored rule whose operator
\* would hold of zero.
C17_ValuelessWindowEvaluated ==
    /\ arg_data_points \in {WindowOtherField, WindowNull}
    /\ Get(arg_condition, "operator", ">") \in {"<", "<=", "!="}
    /\ Len(verdicts) = MaxEvaluations
    /\ lastEval.rule_id # NoId /\ lastEval.pulled

\* C18: for a threshold condition with aggregation latest, avg, max or min
\* and operator >, <, >= or <=, on a window with at least one value, the
\* result is the comparison of the aggregated value with the threshold:
\* latest is the first (newest) value, avg the sum over the count, max and
\* min the extremes.  The mean of 60000 and 40000 is 50000, which is not
\* > 50000.
C18_ComparesAggregate ==
    LET vals == FieldValues(Get(arg_condition, "field", "value"), arg_data_points)
        n == Len(vals)
        agg == Get(arg_condition, "aggregation", "latest")
        op == Get(arg_condition, "operator", ">")
        thr == Get(arg_condition, "value", 0)
        \* n times the aggregated value
        scaled == IF agg = "latest" THEN n * vals[1]
                  ELSE IF agg = "avg" THEN Sum(vals)
                  ELSE IF agg = "max"
                  THEN n * (CHOOSE v \in Range(vals) : \A w \in Range(vals) : w <= v)
                  ELSE n * (CHOOSE v \in Range(vals) : \A w \in Range(vals) : v <= w)
        expected == IF op = ">" THEN scaled > n * thr
                    ELSE IF op = "<" THEN scaled < n * thr
                    ELSE IF op = ">=" THEN scaled >= n * thr
                    ELSE scaled <= n * thr
    IN /\ ( /\ arg_condition.type = "threshold" /\ n >= 1
            /\ agg \in {"latest", "avg", "max", "min"}
            /\ op \in {">", "<", ">=", "<="} )
          => \A k \in DOMAIN verdicts : verdicts[k] = expected
       /\ ( /\ arg_data_points = WindowSpike /\ agg = "avg" /\ op = ">"
            /\ thr = 50000 * Scale )
          => /\ Sum(vals) = n * 50000 * Scale
             /\ \A k \in DOMAIN verdicts : verdicts[k] = FALSE

\* The average of 60000 and 40000 has been compared with > 50000, and so has
\* the latest of 51000, 49000.
C18_SpikeAveraged ==
    /\ arg_data_points = WindowSpike
    /\ arg_condition = [type |-> "threshold", field |-> "price", operator |-> ">",
                        value |-> 50000 * Scale, aggregation |-> "avg"]
    /\ verdicts # <<>>

SinkDown == [email |-> TransportError, slack |-> 500, discord |-> 500, teams |-> 500]

InitTick ==
    /\ Init
    /\ k8s_client /\ sendgrid_client /\ webhooks = {"slack", "discord"}

\* The steps of AlertEngine.start's loop.
TickStep ==
    \/ \E query_fault \in BOOLEAN : evaluation_cycle(query_fault)
    \/ \E ef \in BOOLEAN, w \in {<<>>, WindowFiring}, sf \in BOOLEAN : evaluate_rule(ef, w, sf)
    \/ \E sink \in {SinkHealthy, SinkDown}, sf \in BOOLEAN : notify(sink, sf)
    \/ now < LoopTicks * EvaluationInterval /\ sleep

NextTick ==
    \/ nextId.monitor = 1 /\ create_monitor(Tenant, NoSecrets)
    \/ create_monitor_deploy("none")
    \/ /\ nextId.rule <= TickRules
       /\ create_alert_rule(Tenant, 1, "t1", CondLatestGt, "high", 0)
    \/ \E r \in Rows(alert_rules) : delete_alert_rule(Tenant, r)
    \/ engine_start(TRUE)
    \/ TickStep

SpecTick == InitTick /\ [][NextTick]_vars

\* C21: within one tick a failure while a rule is processed (the cooldown
\* check, the alert insert, the cooldown write or the dispatch) does not end
\* the tick: as long as rules remain in the loaded list the clock stands
\* still and a step of the engine either keeps the list or removes its head,
\* the rule just evaluated, so every rule that follows is evaluated in that
\* same tick.
C21_FailureKeepsTick ==
    [][ (pc \in {"eval", "notify"} /\ loaded # <<>> /\ pc' # "done")
            => /\ now' = now
               /\ pc' \in {"eval", "notify"}
               /\ loaded' \in {loaded, Tail(loaded)}
               /\ lastEval' # lastEval => lastEval'.rule_id = Head(loaded).id
               /\ loaded' = Tail(loaded) => lastEval'.rule_id = Head(loaded).id
      ]_vars

\* Rule 1 fired in this tick and its cooldown write failed; rule 2, which
\* follows it in the list, has had its window pulled in the same tick.
C21_SecondRuleAfterFailure ==
    /\ redis_client
    /\ 1 \in DOMAIN fired /\ fired[1].at = now /\ ~fired[1].reachable
    /\ lastEval.rule_id = 2 /\ lastEval.pulled
    /\ pc = "eval"

\* ------------------------------------------------- the engine's lifetime
\* One rule, a store that may or may not be reachable at startup, a query
\* for the active rules that may fail on any tick, and a process that may be
\* signalled or lose its health server at any moment.
LoopStep ==
    \/ \E query_fault \in BOOLEAN : evaluation_cycle(query_fault)
    \/ \E w \in {<<>>, WindowFiring} : evaluate_rule(FALSE, w, FALSE)
    \/ notify(SinkHealthy, FALSE)
    \/ now < HorizonTicks * EvaluationInterval /\ sleep

NextLoop ==
    \/ nextId.monitor = 1 /\ create_monitor(Tenant, NoSecrets)
    \/ create_monitor_deploy("none")
    \/ nextId.rule = 1 /\ create_alert_rule(Tenant, 1, "t1", CondLatestGt, "high", 0)
    \/ \E c \in BOOLEAN : engine_start(c)
    \/ LoopStep
    \/ signal_handler
    \/ service_error

SpecLoop == InitTick /\ [][NextLoop]_vars

\* The event loop keeps running the engine's coroutine: a step of the loop
\* that can be taken is eventually taken.
SpecLoopLive == SpecLoop /\ WF_vars(LoopStep)

\* C22: the loop outlives a failing tick: when a tick raises (the query for
\* the active rules fails), the loop sleeps the interval and another tick is
\* started one interval later, unless the process has been stopped; this
\* holds of every tick within the horizon HorizonTicks.
C22_LoopOutlivesFailingTick ==
    \A t \in 0..(HorizonTicks - 1) :
        (pc = "eval" /\ tick_error = now /\ now = t * EvaluationInterval)
            ~> \/ pc = "eval" /\ now = (t + 1) * EvaluationInterval
               \/ main_pc = "stopped"

\* The tick before this one raised, and this one has loaded the rule.
C22_TickAfterFailingTick ==
    /\ tick_error # NoTime /\ now = tick_error + EvaluationInterval
    /\ pc = "eval" /\ loaded # <<>>

\* C23: after the process has received the shutdown signal the engine starts
\* no new tick (and the process goes on to stop the loop and to close the
\* cooldown connection and the dispatcher's HTTP client).
C23_NoTickAfterSignal ==
    [][shutdown_event => ~(pc = "idle" /\ pc' = "eval")]_vars

\* ------------------------------------------------------------- the vault
\* One tenant creates a monitor with or without a secret, on a cluster or in
\* simulation, with every deployment fault, and deletes it; the facade
\* process is restarted with the same MASTER_KEY; the engine fires the
\* tenant's rule.
InitVault == Init /\ sendgrid_client /\ webhooks = {}

NextVault ==
    \/ \E sec \in SecretInputs :
            nextId.monitor <= VaultMonitors /\ create_monitor(Tenant, sec)
    \/ \E f \in DeployFaults : create_monitor_deploy(f)
    \/ \E m \in Rows(monitors), f \in BOOLEAN : delete_monitor(Tenant, m, f)
    \/ auth_manager_init
    \/ nextId.rule = 1 /\ create_alert_rule(Tenant, 1, "t1", CondLatestGt, "high", 0)
    \/ engine_start(FALSE)
    \/ evaluation_cycle(FALSE)
    \/ evaluate_rule(FALSE, WindowFiring, FALSE)
    \/ notify(SinkHealthy, FALSE)

SpecVault == InitVault /\ [][NextVault]_vars

\* C24: after any sequence of create_monitor, delete_monitor and engine
\* ticks no plaintext secret value given to create_monitor can be read out
\* of a relational column, a log line or an alert's data; the secrets table
\* holds the ciphertext, and in the cluster the plaintext is only in the
\* secret object of the monitor it was given for.
C24_NoPlaintextAtRest ==
    \A sec \in SecretInputs \ {NoSecrets} :
        LET p == sec.api_key
        IN /\ \A x \in Rows(secrets) :
                 /\ Visible(secrets[x].encrypted_value) # p
                 /\ decrypt(secrets[x].encrypted_value[2], secrets[x].encrypted_value) = p
                 /\ secrets[x].name # p /\ secrets[x].user_id # p
           /\ \A m \in Rows(monitors) :
                 /\ monitors[m].user_id # p /\ monitors[m].monitor_type # p
                 /\ monitors[m].status # p
           /\ \A l \in log : \A i \in DOMAIN l : l[i] # p
           /\ \A a \in Rows(alerts) :
                 /\ alerts[a].title # p /\ alerts[a].severity # p
                 /\ alerts[a].data.condition.field # p
                 /\ \A i \in DOMAIN alerts[a].data.trigger_data :
                        p \notin DOMAIN alerts[a].data.trigger_data[i]
           /\ \A n \in DOMAIN deployments :
                 \A lab \in DOMAIN deployments[n].labels :
                    lab # "monitor_id" => deployments[n].labels[lab] # p
           /\ \A n \in DOMAIN k8s_secrets :
                 \E m \in 1..(nextId.monitor - 1) : n = SecretName(m)

\* A monitor created with a secret on a cluster: the secrets table holds the
\* token, the monitor's secret object holds the plaintext, and the engine
\* has since created an alert for the monitor.
C24_SecretStoredAndApplied ==
    /\ \E x \in Rows(secrets) : decrypt(1, secrets[x].encrypted_value) = OneSecret.api_key
    /\ SecretName(1) \in DOMAIN k8s_secrets
    /\ k8s_secrets[SecretName(1)].api_key = OneSecret.api_key
    /\ \E a \in Rows(alerts) : alerts[a].monitor_id = 1

\* C25: the vault's key is derived from the master key only, so a process
\* started later with the same master key decrypts what an earlier one
\* encrypted: every stored token decrypts to its value under the key of the
\* running process.
C25_StoredTokenDecrypts ==
    \A x \in Rows(secrets) :
        decrypt(encryption_key, secrets[x].encrypted_value) # InvalidToken

\* ----------------------------------------------------- the status read
\* One tenant's monitor, applied on a cluster or in simulation with every
\* deployment fault, deleted, and its workload status read while the
\* cluster reports every combination of desired and ready replicas.
NextStatus ==
    \/ \E sec \in SecretInputs :
            nextId.monitor <= StatusMonitors /\ create_monitor(Tenant, sec)
    \/ \E f \in DeployFaults : create_monitor_deploy(f)
    \/ \E m \in Rows(monitors), f \in BOOLEAN : delete_monitor(Tenant, m, f)
    \/ \E m \in 1..StatusMonitors, o \in WorkloadReads, f \in ReadFaults :
            get_deployment_status(Tenant, m, o, f)

SpecStatus == InitVault /\ [][NextStatus]_vars

\* C26: with a real cluster client the workload status read returns running
\* if and only if the workload's ready replica count equals its desired
\* replica count and that count is greater than 0, and the status it returns
\* is one of running, starting, not_found, error.
C26_RunningIffAllReady ==
    (resp.op = "get_deployment_status" /\ resp.message = "ok" /\ k8s_client)
        => /\ resp.deployment_status.status
                  \in {"running", "starting", "not_found", "error"}
           /\ resp.deployment_status.status \in {"running", "starting"}
                => (resp.deployment_status.status = "running"
                      <=> /\ resp.deployment_status.ready_replicas
                              = resp.deployment_status.total_replicas
                          /\ resp.deployment_status.total_replicas > 0)

\* C27: the monitor's relational status follows the workload status read: a
\* monitor in deploying whose workload is read with all its desired replicas
\* ready is moved to running (and a running monitor whose workload is
\* reported missing is moved to error).
C27_RowFollowsStatusRead ==
    (/\ resp.op = "get_deployment_status" /\ resp.message = "ok" /\ k8s_client
     /\ resp.deployment_status.status = "running"
     /\ resp.deployment_status.ready_replicas = 1
     /\ resp.deployment_status.total_replicas = 1)
        => monitors[resp.monitor_id].status = "running"

\* ------------------------------------------------ one channel and the others
\* One tenant's rule fires on every tick, with every channel configuration,
\* against every sink profile.
DispatchStep == \E sink \in SinkProfiles : notify(sink, FALSE)

NextChannels ==
    \/ nextId.monitor = 1 /\ create_monitor(Tenant, NoSecrets)
    \/ create_monitor_deploy("none")
    \/ nextId.rule = 1 /\ create_alert_rule(Tenant, 1, "t1", CondLatestGt, "high", 0)
    \/ engine_start(FALSE)
    \/ evaluation_cycle(FALSE)
    \/ \E w \in Windows : evaluate_rule(FALSE, w, FALSE)
    \/ DispatchStep
    \/ now < ChannelTicks * EvaluationInterval /\ sleep

SpecChannels == InitDispatch /\ [][NextChannels]_vars

\* _create_alert awaits send_alert_notification right after the commit, and
\* every send has a 30 s timeout: a dispatch that has begun comes to its end.
SpecChannelsLive == SpecChannels /\ WF_vars(DispatchStep)

\* C28: within the dispatch of one alert the outcome of one channel's send
\* changes neither whether another channel is attempted nor whether that
\* other channel is recorded as delivered: in every state the dispatcher
\* can be in, two dispatches against sinks that differ in the answer of one
\* channel only make their requests for the same other channels and record
\* the same other channels as delivered.
C28_ChannelsIndependent ==
    \A sink \in SinkProfiles, ch \in Channels, answer \in {200, 500} :
        LET other == [sink EXCEPT ![ch] = answer]
        IN /\ CalledChannels(sink) \ {ch} = CalledChannels(other) \ {ch}
           /\ DeliveredChannels(sink) \ {ch} = DeliveredChannels(other) \ {ch}

\* An alert was dispatched while the email send failed, and its row has the
\* block-style webhook, and only it, as delivered.
C28_WebhookDeliveredEmailFailed ==
    /\ lastDispatch.alert_id # NoId /\ pc # "notify"
    /\ "email" \in lastDispatch.called /\ ~Is2xx(lastDispatch.sink.email)
    /\ Is2xx(lastDispatch.sink.slack)
    /\ alerts[lastDispatch.alert_id].delivered_channels = {"slack"}

\* C29: the dispatcher's HTTP client stays open from construction through
\* every webhook send of every alert and is closed only at process shutdown:
\* the client is closed only once the process has stopped, and in every
\* dispatch each configured webhook's request was made.
C29_ClientOpenForEverySend ==
    /\ http_client = "closed" => main_pc = "stopped"
    /\ lastDispatch.alert_id # NoId => webhooks \subseteq lastDispatch.called

RowPatches == {[title |-> "t2", severity |-> "critical"], [is_active |-> FALSE]}

NextRows ==
    \/ nextId.monitor = 1 /\ create_monitor(Tenant, NoSecrets)
    \/ create_monitor_deploy("none")
    \/ nextId.rule = 1 /\ create_alert_rule(Tenant, 1, "t1", CondLatestGt, "high", 0)
    \/ \E r \in Rows(alert_rules), p \in RowPatches :
            alert_rules[r].title = "t1" /\ update_alert_rule(Tenant, r, p)
    \/ \E r \in Rows(alert_rules) : delete_alert_rule(Tenant, r)
    \/ \E a \in Rows(alerts) : acknowledge_alert(Tenant, a)
    \/ engine_start(FALSE)
    \/ evaluation_cycle(FALSE)
    \/ \E w \in {WindowFiring, WindowFour} : evaluate_rule(FALSE, w, FALSE)
    \/ \E sink \in {SinkHealthy, SinkDown} : notify(sink, FALSE)
    \/ now < RowTicks * EvaluationInterval /\ sleep

SpecRows == InitTick /\ [][NextRows]_vars

\* C31: every alert row the engine inserts has status pending,
\* the severity, title and user_id the rule's row has at the moment of the
\* insert, the rule's rule_id and monitor_id, and data holding the rule's
\* condition and the first min(3, n) samples of the n-sample window in
\* window order; no row is inserted for a rule whose monitor is missing.
C31_InsertedRowFromCurrentRule ==
    [][\A a \in Rows(alerts') \ Rows(alerts) :
        /\ pc = "eval" /\ loaded # <<>>
        /\ alerts'[a].status = "pending"
        /\ alerts'[a].rule_id = Head(loaded).id
        /\ alerts'[a].rule_id \in Rows(alert_rules)
        /\ alerts'[a].monitor_id = alert_rules[alerts'[a].rule_id].monitor_id
        /\ alerts'[a].monitor_id \in Rows(monitors)
        /\ alerts'[a].user_id = alert_rules[alerts'[a].rule_id].user_id
        /\ alerts'[a].severity = alert_rules[alerts'[a].rule_id].severity
        /\ alerts'[a].title = alert_rules[alerts'[a].rule_id].title
        /\ alerts'[a].data.condition = alert_rules[alerts'[a].rule_id].condition
        /\ \E w \in {WindowFiring, WindowFour} :
              /\ evaluate_rule(FALSE, w, FALSE)
              /\ alerts'[a].data.trigger_data
                    = [i \in 1..(IF Len(w) < 3 THEN Len(w) ELSE 3) |-> w[i]]
      ]_vars

\* C32: once the engine has committed an alert row, a failing dispatch (a
\* send that raises, or every channel failing) neither removes the row nor
\* undoes a field the insert wrote: no step removes an alert row, and the
\* step that ends a dispatch in which no channel took the alert leaves the
\* row in the table with the values it was inserted with.
C32_FailedDispatchKeepsRow ==
    [][ /\ Rows(alerts) \subseteq Rows(alerts')
        /\ (pc = "notify" /\ pc' # "notify" /\ DeliveredChannels(lastDispatch'.sink) = {})
            => /\ curAlert \in Rows(alerts')
               /\ \A f \in {"rule_id", "monitor_id", "user_id", "severity", "title",
                             "data", "created_at"} :
                     alerts'[curAlert][f] = alerts[curAlert][f]
      ]_vars

\* The tick is over and the row of an alert whose every send failed is
\* still in the table, marked failed, with the samples it was inserted with.
C32_RowKeptAfterFailedDispatch ==
    /\ pc = "idle"
    /\ \E a \in Rows(alerts) :
          /\ alerts[a].status = "failed" /\ alerts[a].created_at < now
          /\ alerts[a].data.trigger_data # <<>>
          /\ alerts[a].rule_id \in Rows(alert_rules)

\* C33: delete_monitor removes the monitor row only after the cluster
\* workload has been deleted: in no reachable state is a monitor row gone
\* while its workload monitor-<monitor_id> still exists in the cluster.
C33_NoWorkloadWithoutRow ==
    \A m \in 1..(nextId.monitor - 1) :
        m \notin Rows(monitors) => DeploymentName(m) \notin DOMAIN deployments

\* C34: once an alert row is created, no step (the dispatcher's delivery
\* update, acknowledge_alert, an update or a deletion of the rule) changes
\* its rule_id, monitor_id, user_id, severity, title, data or created_at;
\* only status, delivered_channels, delivered_at and acknowledged_at change.
C34_AlertImmutable ==
    [][\A a \in Rows(alerts) \cap Rows(alerts') :
        /\ DOMAIN alerts'[a] = DOMAIN alerts[a]
        /\ \A f \in DOMAIN alerts[a] \ {"status", "delivered_channels", "delivered_at",
                                         "acknowledged_at"} :
              alerts'[a][f] = alerts[a][f]
      ]_vars

\* An alert was dispatched and acknowledged, and after that its rule was
\* retitled: the row has the delivery and acknowledgement fields set and
\* still the title it was created with.
C34_AcknowledgedThenRuleRetitled ==
    /\ resp.op = "update_alert_rule" /\ resp.success
    /\ \E a \in Rows(alerts) :
          /\ alerts[a].status = "acknowledged"
          /\ alerts[a].delivered_at # NoTime /\ alerts[a].acknowledged_at # NoTime
          /\ alerts[a].title = "t1"
          /\ alert_rules[alerts[a].rule_id].title = "t2"

\* C35: on shutdown the tick in flight, with its dispatches, completes
\* before resources are released: the step that closes the cooldown
\* connection is never taken while a rule of the current tick is still to
\* be evaluated or an alert is still being dispatched.
C35_TickCompletesBeforeClose ==
    [][ (~redis_closed /\ redis_closed')
            => ~(pc = "notify" \/ (pc = "eval" /\ loaded # <<>>)) ]_vars

\* C36: a create_alert_rule or update_alert_rule call that validation
\* rejects (a condition without one of type, field, operator, value, or a
\* severity outside low, medium, high, critical) changes no stored rule: it
\* creates none and modifies no field of the rule it targets.
C36_RejectedCallChangesNothing ==
    (/\ resp.op \in {"create_alert_rule", "update_alert_rule"}
     /\ ~resp.success
     /\ resp.message \in {"Condition must include", "Severity must be one of"})
        => resp.touched = {}

\* ------------------------------------------------------ overlapping applies
\* One tenant's monitors, created with and without secrets, their first
\* apply succeeding or failing at the workload, and two facade processes
\* applying them again at the same time.
NextOverlap ==
    \/ \E sec \in SecretInputs :
            nextId.monitor <= OverlapMonitors /\ create_monitor(Tenant, sec)
    \/ \E f \in {"none", "workload"} : create_monitor_deploy(f)
    \/ \E p \in Appliers, m \in Rows(monitors) : deploy_monitor_read(p, m)
    \/ \E p \in Appliers, f \in BOOLEAN : deploy_monitor_write(p, f)

SpecOverlap == InitCooldown /\ [][NextOverlap]_vars

\* C37: when two apply calls for the same monitor overlap, both having
\* checked for the workload before either created it, and the cluster fails
\* neither, both return "deployed" with the same workload id and the
\* cluster holds exactly one workload monitor-<monitor_id>.
C37_OverlappingApplySafe ==
    \A p, q \in Appliers :
        (/\ p # q
         /\ applies[p].phase = "done" /\ applies[q].phase = "done"
         /\ applies[p].monitor_id = applies[q].monitor_id
         /\ ~applies[p].found /\ ~applies[q].found
         /\ ~applies[p].fault /\ ~applies[q].fault)
            => /\ applies[p].result.status = "deployed"
               /\ applies[q].result.status = "deployed"
               /\ applies[p].result.deployment_id = applies[q].result.deployment_id
               /\ {n \in DOMAIN deployments :
                      deployments[n].labels.monitor_id = applies[p].monitor_id}
                    = {DeploymentName(applies[p].monitor_id)}

\* C38: a cooldown marker for a rule is written only in an evaluation that
\* persisted an alert row for that rule: the step that writes or renews the
\* marker of rule r is the rest of the evaluation whose alert row, naming r,
\* is in the table.
C38_MarkerOnlyWithAlert ==
    [][\A r \in DOMAIN cooldown' :
        (r \notin DOMAIN cooldown \/ cooldown'[r] # cooldown[r])
            => /\ pc = "notify"
               /\ curAlert \in Rows(alerts)
               /\ alerts[curAlert].rule_id = r
      ]_vars

\* C39: once acknowledge_alert has set an alert's status to acknowledged,
\* the status stays acknowledged: no later step, the dispatcher's delivery
\* update for the same alert included, sets it to anything else.
C39_AcknowledgedStays ==
    [][\A a \in Rows(alerts) \cap Rows(alerts') :
        alerts[a].status = "acknowledged" => alerts'[a].status = "acknowledged"
      ]_vars

\* C40: an alert row is created only for a rule that exists and is active
\* at the moment the row is inserted: the evaluation that created a row
\* found the rule in the table, active.
C40_AlertOnlyForActiveRule ==
    (lastEval.rule_id # NoId /\ lastEval.created # NoId) => lastEval.active

====
